---- MODULE Spec2Model ----
(***************************************************************************)
(* The WV Runs cross-country helpers                                       *)
(* (src/CrossCountry/firebase-helpers.js): the roster of athletes under    *)
(* crosscountry/athletes, the season records under crosscountry/seasons,   *)
(* the results and meets under crosscountry/results and crosscountry/meets,*)
(* and the operator-triggered calls that read and change them.             *)
(*                                                                         *)
(* One operator issues the calls one after the other, except in SpecRace   *)
(* and SpecImports.  In the lifecycle specifications every store call      *)
(* succeeds; the import specifications follow bulkInsertResults write by   *)
(* write, failed writes included.                                          *)
(*                                                                         *)
(* Spec        advanceAllAthletes and graduateAllSeniors at any date, with *)
(*             the last two calls logged.                                  *)
(* SpecManual  the same with updateAthleteGradYear at hand (no log).       *)
(* SpecYearly  the documented yearly procedure: graduate in June, advance  *)
(*             in August.                                                  *)
(* SpecSeason  setCurrentSeason and archiveSeason on the season records.   *)
(* SpecImport  parseCSV and bulkInsertResults on one CSV file.             *)
(* SpecSchema  the same with checkDatabaseSchema at hand.                  *)
(* SpecMeets   createMeetFromCSV.                                          *)
(* SpecFrame   the lifecycle calls over stores that hold results and meets.*)
(* SpecQuery   getAthleteStatus and getSeasonSummary, with the two bulk    *)
(*             calls, at any month.                                        *)
(* SpecStatus  getAthleteStatus over rosters of every class.               *)
(* SpecBulk    advanceAllAthletes and graduateAllSeniors update by update, *)
(*             rejected updates included.                                  *)
(* SpecFields  the import of files of one row, one field varied at a time. *)
(* SpecFormat  formatTime of a stored time and parseTimeToSeconds of the   *)
(*             text (src/CrossCountry/advanced-features.js).               *)
(* SpecData    getSeasonData over meets, imported results and the roster.  *)
(* SpecRace    two operators: advanceAllAthletes of the first, overlapped  *)
(*             by advanceAllAthletes or updateAthleteGradYear of the       *)
(*             second.                                                     *)
(* SpecImports two operators importing a file each at the same time.       *)
(***************************************************************************)
EXTENDS Integers, FiniteSets, Sequences, TLC

VARIABLES
    now,        \* new Date(): the calendar date the operator works at
    athletes,   \* crosscountry/athletes: id -> athlete record
    result,     \* what the last call returned
    lastCall,   \* history: the last logged call (what it saw, what it returned)
    prevCall,   \* history: the logged call before it
    current,    \* crosscountry/seasons/current
    archived,   \* crosscountry/seasons/archived: year -> record
    results,    \* crosscountry/results: the records in push-key order
    meets,      \* crosscountry/meets: the records in push-key order
    csvText,    \* the CSV file the operator imports
    peer,       \* the call of a second operator under way
    bulk,       \* the bulk transition under way: its position and its updates
    imp,        \* the bulkInsertResults call: its position and its report
    imports,    \* history: the imports that have returned
    testRef     \* checkDatabaseSchema: position of its record in results

vars == <<now, athletes, result, lastCall, prevCall, current, archived,
          results, meets, csvText, peer, bulk, imp, imports, testRef>>

(* What the import side owns, and the bulk transition under way *)
importVars == <<results, meets, csvText, peer, bulk, imp, imports, testRef>>

----------------------------------------------------------------------------
(* Bounds of the model *)

NumAthletes == 2
NumYears == 2
MaxCorrections == 1
MaxRows == 3
MaxImports == 2
MaxLeftovers == 1
MaxMeets == 3
FracDigits == 3
ClassSpan == 6

(* Program constants *)

StartYear == 2025
August == 7
June == 5
FreshmanOffset == 3
DefaultStartMonth == 8
DefaultEndMonth == 11
SecondsPerMinute == 60
SecondsPerHour == 3600
MaxTimeSeconds == 36000
TestTimeHundredths == 111045
HundredthsPerSecond == 100

Athletes == 1..NumAthletes
NoSuchAthlete == 0
Years == StartYear..(StartYear + NumYears - 1)
(* Graduation years on the roster: last year's class up to this year's      *)
(* freshmen                                                                *)
GradYears == (StartYear - 1)..(StartYear + FreshmanOffset)
(* Years the manual correction writes: this year's class and the freshmen  *)
CorrectionYears == {StartYear, StartYear + FreshmanOffset}
(* Season years the operator names: last season up to the last calendar year *)
SeasonYears == (StartYear - 1)..(StartYear + NumYears - 1)

(* new Date(): the calendar year and the 0-based month.  The operator is at  *)
(* work in the two months the guide names: June and August.                *)
Months == {June, August}
Dates == [year : Years, month : Months]
NoStamp == [year |-> 0, month |-> 0]

Earlier(d, e) == d.year < e.year \/ (d.year = e.year /\ d.month < e.month)

----------------------------------------------------------------------------
(* Pure helpers *)

academicYear(d) == IF d.month >= August THEN d.year + 1 ELSE d.year

(* Variant: a strict comparison leaves this year's seniors out *)
activeAthletesStrict(aths, ay) == {a \in DOMAIN aths : aths[a].grad_year > ay}

activeAthletes(aths, ay) == {a \in DOMAIN aths : aths[a].grad_year >= ay}

(* Variant: >= in place of === takes every active athlete for a senior *)
seniorsAtLeast(aths, ay) == {a \in DOMAIN aths : aths[a].grad_year >= ay}

seniors(aths, ay) == {a \in DOMAIN aths : aths[a].grad_year = ay}

(* Variant: an athlete already advanced this calendar year is skipped *)
advanceUpdateOncePerYear(rec, d) ==
    IF rec.advancedAt # NoStamp /\ rec.advancedAt.year = d.year
    THEN rec
    ELSE [rec EXCEPT !.grad_year = @ - 1, !.advancedAt = d]

(* Variant: the sign of the step is wrong *)
advanceUpdateIncrease(rec, d) ==
    [rec EXCEPT !.grad_year = @ + 1, !.advancedAt = d]

advanceUpdate(rec, d) ==
    [rec EXCEPT !.grad_year = @ - 1, !.advancedAt = d]

(* Variant: the graduate keeps the graduation year *)
graduateUpdateNoDecrement(rec, ay, d) ==
    [rec EXCEPT !.graduatedAt = d, !.status = "graduated"]

graduateUpdate(rec, ay, d) ==
    [rec EXCEPT !.grad_year = ay - 1, !.graduatedAt = d, !.status = "graduated"]

gradYearUpdate(rec, newGradYear, d) ==
    [rec EXCEPT !.grad_year = newGradYear, !.updatedAt = d]

(* What a call saw before it wrote: grad_year and status of every athlete *)
Roster(aths) == [a \in DOMAIN aths |->
                    [grad_year |-> aths[a].grad_year, status |-> aths[a].status]]

NoResult == [op |-> "none", success |-> FALSE, count |-> 0, athletes |-> {}]

NoCall == [ay |-> 0, before |-> <<>>, result |-> NoResult]

----------------------------------------------------------------------------
(* The store *)

NoSeason == [exists |-> FALSE]

(* The guide always calls setCurrentSeason(year, 8, 11) *)
StartMonths == {DefaultStartMonth}
EndMonths == {DefaultEndMonth}

NoImport == [pc |-> "idle"]
NoBulk == [pc |-> "idle", pending |-> {}]
NoPeer == [pc |-> "idle"]

(* The stores of results and meets are empty and no file is at hand *)
NothingImported ==
    /\ results = <<>>
    /\ meets = <<>>
    /\ csvText = <<>>
    /\ bulk = NoBulk
    /\ peer = NoPeer
    /\ imp = NoImport
    /\ imports = <<>>
    /\ testRef = 0

TypeOK ==
    /\ now \in Dates
    /\ DOMAIN athletes = Athletes
    /\ \A a \in Athletes :
          /\ athletes[a].grad_year \in Int
          /\ athletes[a].status \in {"active", "graduated"}
    /\ DOMAIN archived = SeasonYears

Init ==
    /\ now = [year |-> StartYear, month |-> June]
    /\ athletes \in [Athletes -> [grad_year : GradYears, status : {"active"},
                                  advancedAt : {NoStamp}, graduatedAt : {NoStamp},
                                  updatedAt : {NoStamp}]]
    /\ result = NoResult
    /\ lastCall = NoCall
    /\ prevCall = NoCall
    /\ current = NoSeason
    /\ archived = [y \in SeasonYears |-> NoSeason]
    /\ NothingImported

----------------------------------------------------------------------------
(* The calendar *)

Tick ==
    /\ \/ /\ now.month = June
          /\ now' = [now EXCEPT !.month = August]
       \/ /\ now.month = August
          /\ now.year + 1 \in Years
          /\ now' = [year |-> now.year + 1, month |-> June]
    /\ UNCHANGED <<athletes, result, lastCall, prevCall, current, archived>>
    /\ UNCHANGED importVars

----------------------------------------------------------------------------
(* Athlete graduation management *)

advanceAllAthletes ==
    LET ay == academicYear(now)
        active == activeAthletes(athletes, ay)
    IN /\ athletes' = [a \in DOMAIN athletes |->
                          IF a \in active THEN advanceUpdate(athletes[a], now)
                                          ELSE athletes[a]]
       /\ result' = [op |-> "advance", success |-> TRUE,
                     count |-> Cardinality(active), athletes |-> active]
       /\ UNCHANGED <<now, current, archived>>
       /\ UNCHANGED importVars

(* Variant: the results stored so far are cleared with the graduation *)
graduateAllSeniorsPurging ==
    LET ay == academicYear(now)
        srs == seniors(athletes, ay)
    IN /\ athletes' = [a \in DOMAIN athletes |->
                          IF a \in srs THEN graduateUpdate(athletes[a], ay, now)
                                       ELSE athletes[a]]
       /\ result' = [op |-> "graduate", success |-> TRUE,
                     count |-> Cardinality(srs), athletes |-> srs]
       /\ results' = IF srs = {} THEN results ELSE <<>>
       /\ UNCHANGED <<now, current, archived>>
       /\ UNCHANGED <<meets, csvText, peer, bulk, imp, imports, testRef>>

graduateAllSeniors ==
    LET ay == academicYear(now)
        srs == seniors(athletes, ay)
    IN /\ athletes' = [a \in DOMAIN athletes |->
                          IF a \in srs THEN graduateUpdate(athletes[a], ay, now)
                                       ELSE athletes[a]]
       /\ result' = [op |-> "graduate", success |-> TRUE,
                     count |-> Cardinality(srs), athletes |-> srs]
       /\ UNCHANGED <<now, current, archived>>
       /\ UNCHANGED importVars

updateAthleteGradYear(athleteSlug, newGradYear) ==
    LET found == {a \in DOMAIN athletes : a = athleteSlug}
    IN /\ IF found = {}
          THEN /\ athletes' = athletes
               /\ result' = [op |-> "update", success |-> FALSE,
                             count |-> 0, athletes |-> {}]
          ELSE /\ athletes' = [athletes EXCEPT
                                 ![athleteSlug] = gradYearUpdate(@, newGradYear, now)]
               /\ result' = [op |-> "update", success |-> TRUE,
                             count |-> 1, athletes |-> found]
       /\ UNCHANGED <<now, current, archived>>
       /\ UNCHANGED importVars

(* History: the call just made becomes lastCall *)
Logged ==
    /\ lastCall' = [ay |-> academicYear(now), before |-> Roster(athletes),
                    result |-> result']
    /\ prevCall' = lastCall

NotLogged == UNCHANGED <<lastCall, prevCall>>

Next ==
    \/ Tick
    \/ advanceAllAthletes /\ Logged
    \/ graduateAllSeniors /\ Logged

Spec == Init /\ [][Next]_vars

(* The documented yearly procedure: graduateAllSeniors once in June,       *)
(* advanceAllAthletes once in August, the calendar moving on in between    *)
YearlyGraduate ==
    /\ now.month = June
    /\ lastCall.result.op # "graduate"
    /\ graduateAllSeniors
    /\ Logged

YearlyAdvance ==
    /\ now.month = August
    /\ lastCall.result.op # "advance"
    /\ advanceAllAthletes
    /\ Logged

YearlyTick ==
    /\ now.month = June => lastCall.result.op = "graduate"
    /\ now.month = August => lastCall.result.op = "advance"
    /\ Tick

NextYearly ==
    \/ YearlyGraduate
    \/ YearlyAdvance
    \/ YearlyTick

SpecYearly == Init /\ [][NextYearly]_vars

(* The same operator with the manual correction at hand, used on at most   *)
(* MaxCorrections athletes                                                 *)
Corrected == {a \in Athletes : athletes[a].updatedAt # NoStamp}

ManualCorrection ==
    /\ Cardinality(Corrected) < MaxCorrections
    /\ \E s \in Athletes \cup {NoSuchAthlete}, y \in CorrectionYears :
          updateAthleteGradYear(s, y)
    /\ NotLogged

NextManual ==
    \/ Tick
    \/ advanceAllAthletes /\ NotLogged
    \/ graduateAllSeniors /\ NotLogged
    \/ ManualCorrection

SpecManual == Init /\ [][NextManual]_vars

----------------------------------------------------------------------------
(* Season management *)

SeasonName(year) == <<year, "Season">>

(* snapshot.exists() of seasons/current; the default stands in when unset *)
getCurrentSeason ==
    IF current = NoSeason
    THEN [year |-> now.year, startMonth |-> DefaultStartMonth,
          endMonth |-> DefaultEndMonth, name |-> SeasonName(now.year)]
    ELSE current

setCurrentSeason(year, startMonth, endMonth) ==
    /\ current' = [year |-> year, startMonth |-> startMonth,
                   endMonth |-> endMonth, name |-> SeasonName(year),
                   setAt |-> now]
    /\ result' = [op |-> "setCurrentSeason", success |-> TRUE,
                  count |-> 0, athletes |-> {}]
    /\ UNCHANGED <<now, athletes, lastCall, prevCall, archived>>
    /\ UNCHANGED importVars

(* {...currentSeason, archivedAt} *)
archiveRecord(season, d) ==
    IF "setAt" \in DOMAIN season
    THEN [year |-> season.year, startMonth |-> season.startMonth,
          endMonth |-> season.endMonth, name |-> season.name,
          setAt |-> season.setAt, archivedAt |-> d]
    ELSE [year |-> season.year, startMonth |-> season.startMonth,
          endMonth |-> season.endMonth, name |-> season.name,
          archivedAt |-> d]

archiveSeason(year) ==
    /\ archived' = [archived EXCEPT ![year] = archiveRecord(getCurrentSeason, now)]
    /\ result' = [op |-> "archiveSeason", success |-> TRUE,
                  count |-> 0, athletes |-> {}]
    /\ UNCHANGED <<now, athletes, lastCall, prevCall, current>>
    /\ UNCHANGED importVars

NextSeason ==
    \/ Tick
    \/ \E y \in SeasonYears, sm \in StartMonths, em \in EndMonths :
          setCurrentSeason(y, sm, em)
    \/ \E y \in SeasonYears : archiveSeason(y)

(* The season records do not depend on the roster: one roster of seniors  *)
InitSeason ==
    /\ Init
    /\ \A a \in Athletes : athletes[a].grad_year = StartYear

SpecSeason == InitSeason /\ [][NextSeason]_vars

----------------------------------------------------------------------------
(* Text: a string is the sequence of its characters, null and the empty    *)
(* string are both the falsy <<>>, a CSV file is the sequence of its lines *)

Digits == {"0", "1", "2", "3", "4", "5", "6", "7", "8", "9"}
DigitValue == "0" :> 0 @@ "1" :> 1 @@ "2" :> 2 @@ "3" :> 3 @@ "4" :> 4 @@
              "5" :> 5 @@ "6" :> 6 @@ "7" :> 7 @@ "8" :> 8 @@ "9" :> 9
Null == <<>>

(* Numbers carry FracDigits decimal places: v counts units of 1/Scale      *)
Scale == 10 ^ FracDigits
NaN == [kind |-> "NaN", v |-> 0]
NullNumber == [kind |-> "null", v |-> 0]
Number(v) == [kind |-> "number", v |-> v]
isNaN(x) == x.kind = "NaN"

RECURSIVE TrimStart(_)
TrimStart(s) == IF s # <<>> /\ Head(s) = " " THEN TrimStart(Tail(s)) ELSE s

RECURSIVE TrimEnd(_)
TrimEnd(s) ==
    IF s # <<>> /\ s[Len(s)] = " " THEN TrimEnd(SubSeq(s, 1, Len(s) - 1)) ELSE s

Trim(s) == TrimEnd(TrimStart(s))

(* val.replace(/^"|"$/g, '') *)
StripQuotes(s) ==
    LET t == IF s # <<>> /\ Head(s) = "\"" THEN Tail(s) ELSE s
    IN IF t # <<>> /\ t[Len(t)] = "\"" THEN SubSeq(t, 1, Len(t) - 1) ELSE t

Includes(s, c) == \E i \in 1..Len(s) : s[i] = c

RECURSIVE Split(_, _)
Split(s, c) ==
    IF ~Includes(s, c)
    THEN <<s>>
    ELSE LET i == CHOOSE j \in 1..Len(s) :
                     s[j] = c /\ \A k \in 1..(j - 1) : s[k] # c
         IN <<SubSeq(s, 1, i - 1)>> \o Split(SubSeq(s, i + 1, Len(s)), c)

toUpperCase(s) ==
    [i \in 1..Len(s) |->
        CASE s[i] = "m" -> "M"
          [] s[i] = "f" -> "F"
          [] s[i] = "z" -> "Z"
          [] OTHER -> s[i]]

(* The longest run of digits a string starts with *)
RECURSIVE LeadingDigits(_)
LeadingDigits(s) ==
    IF s # <<>> /\ Head(s) \in Digits
    THEN <<Head(s)>> \o LeadingDigits(Tail(s))
    ELSE <<>>

RECURSIVE DigitsValue(_)
DigitsValue(ds) ==
    IF ds = <<>> THEN 0
    ELSE 10 * DigitsValue(SubSeq(ds, 1, Len(ds) - 1)) + DigitValue[ds[Len(ds)]]

(* The first FracDigits decimals of a run of fraction digits, in units of  *)
(* 1/Scale                                                                 *)
FractionValue(ds) ==
    LET kept == SubSeq(ds, 1, IF Len(ds) < FracDigits THEN Len(ds) ELSE FracDigits)
    IN DigitsValue(kept) * 10 ^ (FracDigits - Len(kept))

Signed(s) == s # <<>> /\ Head(s) \in {"+", "-"}
Unsigned(s) == IF Signed(s) THEN Tail(s) ELSE s
Sign(s) == IF s # <<>> /\ Head(s) = "-" THEN -1 ELSE 1

(* After the integer digits: the fraction digits behind a decimal point    *)
FractionDigits(rest) ==
    IF rest # <<>> /\ Head(rest) = "." THEN LeadingDigits(Tail(rest)) ELSE <<>>

(* parseFloat: the longest decimal literal the string starts with *)
parseFloat(str) ==
    LET s == TrimStart(str)
        body == Unsigned(s)
        int == LeadingDigits(body)
        frac == FractionDigits(SubSeq(body, Len(int) + 1, Len(body)))
    IN IF int = <<>> /\ frac = <<>>
       THEN NaN
       ELSE Number(Sign(s) * (DigitsValue(int) * Scale + FractionValue(frac)))

(* parseInt: the sign and the digits the string starts with *)
parseInt(str) ==
    LET s == TrimStart(str)
        int == LeadingDigits(Unsigned(s))
    IN IF int = <<>> THEN NaN
       ELSE Number(Sign(s) * DigitsValue(int) * Scale)

(* !isNaN(str): Number(str) reads the whole string as a decimal literal;   *)
(* the empty string reads as 0                                             *)
isNumeric(str) ==
    LET s == Trim(str)
        body == Unsigned(s)
        int == LeadingDigits(body)
        rest == SubSeq(body, Len(int) + 1, Len(body))
        frac == FractionDigits(rest)
        point == IF rest # <<>> /\ Head(rest) = "." THEN 1 ELSE 0
    IN \/ s = <<>>
       \/ /\ Len(int) + Len(frac) > 0
          /\ Len(int) + point + Len(frac) = Len(body)

(* Arithmetic with NaN *)
Times(n, x) == IF isNaN(x) THEN NaN ELSE Number(n * x.v)
Plus(x, y) == IF isNaN(x) \/ isNaN(y) THEN NaN ELSE Number(x.v + y.v)

parseTimeToSeconds(timeStr) ==
    IF timeStr = Null THEN NullNumber
    ELSE LET str == Trim(timeStr)
             parts == Split(str, ":")
         IN IF isNumeric(str) /\ ~Includes(str, ":")
            THEN parseFloat(str)
            ELSE IF Includes(str, ":") /\ Len(parts) = 2
            THEN Plus(Times(SecondsPerMinute, parseInt(parts[1])),
                      parseFloat(parts[2]))
            ELSE IF Includes(str, ":") /\ Len(parts) = 3
            THEN Plus(Plus(Times(SecondsPerHour, parseInt(parts[1])),
                           Times(SecondsPerMinute, parseInt(parts[2]))),
                      parseFloat(parts[3]))
            ELSE NaN
----------------------------------------------------------------------------
(* CSV import *)

getCSVTemplateHeaders ==
    <<"athlete_name", "school_slug", "gender", "time", "distance", "place">>

(* line.split(',').map(val => val.trim().replace(/^"|"$/g, '')) *)
LineValues(line) ==
    LET cells == Split(line, ",")
    IN [i \in 1..Len(cells) |-> StripQuotes(Trim(cells[i]))]

(* row[header] = values[index] || null *)
LineRow(values, headers) ==
    [h \in {headers[i] : i \in 1..Len(headers)} |->
        values[CHOOSE i \in 1..Len(headers) : headers[i] = h]]

(* The loop of parseCSV over the data lines: a blank line and a line whose *)
(* number of values differs from the number of headers are passed over     *)
RECURSIVE parseLines(_, _)
parseLines(lines, headers) ==
    IF lines = <<>> THEN <<>>
    ELSE LET line == Trim(Head(lines))
             values == LineValues(line)
         IN IF line = <<>> \/ Len(values) # Len(headers)
            THEN parseLines(Tail(lines), headers)
            ELSE <<LineRow(values, headers)>> \o parseLines(Tail(lines), headers)

(* The first line is the header line *)
parseCSV(text, headers) ==
    IF text = <<>> THEN <<>> ELSE parseLines(Tail(text), headers)

(* Variant: no upper limit on the running time *)
FieldFailureNoLimit(row) ==
    IF row.time # Null /\ isNaN(parseTimeToSeconds(row.time))
    THEN "Invalid time value"
    ELSE IF row.distance # Null /\ isNaN(parseFloat(row.distance))
    THEN "Invalid distance value"
    ELSE IF row.place # Null /\ isNaN(parseInt(row.place))
    THEN "Invalid place value"
    ELSE IF row.gender # Null
            /\ toUpperCase(row.gender) \notin {<<"M">>, <<"F">>}
    THEN "Invalid gender value"
    ELSE "none"

(* The checks on the fields of a row, in the order of the code: the reason *)
(* of the first that fails                                                 *)
FieldFailure(row) ==
    LET time == parseTimeToSeconds(row.time)
    IN IF row.time # Null /\ isNaN(time)
       THEN "Invalid time value"
       ELSE IF row.time # Null /\ time.v > MaxTimeSeconds * Scale
       THEN "Time seems unusually long"
       ELSE IF row.distance # Null /\ isNaN(parseFloat(row.distance))
       THEN "Invalid distance value"
       ELSE IF row.place # Null /\ isNaN(parseInt(row.place))
       THEN "Invalid place value"
       ELSE IF row.gender # Null
               /\ toUpperCase(row.gender) \notin {<<"M">>, <<"F">>}
       THEN "Invalid gender value"
       ELSE "none"

(* Variant: the gender is stored as it was written *)
ConvertedAsWritten(row, meetSlug) ==
    [athlete_name |-> row.athlete_name,
     school_slug |-> row.school_slug,
     gender |-> row.gender,
     time |-> parseTimeToSeconds(row.time),
     distance |-> IF row.distance # Null THEN parseFloat(row.distance)
                                         ELSE NullNumber,
     place |-> IF row.place # Null THEN parseInt(row.place) ELSE NullNumber,
     meet_slug |-> meetSlug]

(* The row as it is pushed: stamped with the meet, its fields converted *)
Converted(row, meetSlug) ==
    [athlete_name |-> row.athlete_name,
     school_slug |-> row.school_slug,
     gender |-> toUpperCase(row.gender),
     time |-> parseTimeToSeconds(row.time),
     distance |-> IF row.distance # Null THEN parseFloat(row.distance)
                                         ELSE NullNumber,
     place |-> IF row.place # Null THEN parseInt(row.place) ELSE NullNumber,
     meet_slug |-> meetSlug]

(* Variant: the return after the required-field check is missing *)
validateRowNoReturn(row, index, meetSlug) ==
    LET missing == IF row.athlete_name = Null
                   THEN <<<<index, "Missing required fields">>>> ELSE <<>>
    IN IF FieldFailure(row) # "none"
       THEN [errors |-> missing \o <<<<index, FieldFailure(row)>>>>, rows |-> <<>>]
       ELSE [errors |-> missing, rows |-> <<Converted(row, meetSlug)>>]

(* Variant: the row keeps the slug it came with *)
validateRowUnstamped(row, index, meetSlug) ==
    IF row.athlete_name = Null
    THEN [errors |-> <<<<index, "Missing required fields">>>>, rows |-> <<>>]
    ELSE IF FieldFailure(row) # "none"
    THEN [errors |-> <<<<index, FieldFailure(row)>>>>, rows |-> <<>>]
    ELSE [errors |-> <<>>, rows |-> <<Converted(row, "")>>]

(* The body of csvData.forEach: what the row adds to results.errors and to *)
(* validRows                                                               *)
validateRow(row, index, meetSlug) ==
    IF row.athlete_name = Null
    THEN [errors |-> <<<<index, "Missing required fields">>>>, rows |-> <<>>]
    ELSE IF FieldFailure(row) # "none"
    THEN [errors |-> <<<<index, FieldFailure(row)>>>>, rows |-> <<>>]
    ELSE [errors |-> <<>>, rows |-> <<Converted(row, meetSlug)>>]

(* csvData.forEach from row `from` on *)
RECURSIVE Validation(_, _, _)
Validation(csvData, from, meetSlug) ==
    IF from > Len(csvData)
    THEN [errors |-> <<>>, rows |-> <<>>]
    ELSE LET first == validateRow(csvData[from], from, meetSlug)
             rest == Validation(csvData, from + 1, meetSlug)
         IN [errors |-> first.errors \o rest.errors,
             rows |-> first.rows \o rest.rows]

DatabaseError == <<0, "Database error">>

(* Variant: a record already in the store is not pushed again *)
pushUnlessPresent(store, rec) ==
    IF \E i \in 1..Len(store) : store[i] = rec THEN store ELSE Append(store, rec)

(* ref.push(value): a new child under a fresh key *)
push(store, rec) == Append(store, rec)

(* ref.remove() of the child at position i *)
remove(store, i) == SubSeq(store, 1, i - 1) \o SubSeq(store, i + 1, Len(store))

(* Variant: the rows written before the failure are counted as a success *)
failedReportCounting(report, written) ==
    [report EXCEPT !.success = written, !.errors = Append(@, DatabaseError)]

(* The catch block: results.success stays as it is *)
failedReport(report, written) ==
    [report EXCEPT !.errors = Append(@, DatabaseError)]

(* The call up to its first await: every row is validated, and the call    *)
(* returns at once when no row is valid                                    *)
bulkInsertResults(meetSlug) ==
    LET csvData == parseCSV(csvText, getCSVTemplateHeaders)
        checked == Validation(csvData, 1, meetSlug)
        report == [success |-> 0, errors |-> checked.errors,
                   total |-> Len(csvData)]
    IN /\ imp.pc \in {"idle", "returned"}
       /\ imp.pc = "returned" => imp.pending = <<>>
       /\ Len(imports) < MaxImports
       /\ IF checked.rows = <<>>
          THEN /\ imp' = [pc |-> "returned", meetSlug |-> meetSlug,
                          validRows |-> <<>>, pending |-> <<>>,
                          written |-> 0, report |-> report]
               /\ imports' = Append(imports, [meetSlug |-> meetSlug,
                                              report |-> report])
          ELSE /\ imp' = [pc |-> "getDB", meetSlug |-> meetSlug,
                          validRows |-> checked.rows, pending |-> checked.rows,
                          written |-> 0, report |-> report]
               /\ imports' = imports
       /\ UNCHANGED <<results, meets, csvText, peer, bulk, testRef>>
       /\ UNCHANGED <<now, athletes, result, lastCall, prevCall, current, archived>>

(* await getDB() throws: the catch block, nothing is pushed *)
getDBFails ==
    /\ imp.pc = "getDB"
    /\ LET report == failedReport(imp.report, imp.written)
       IN /\ imp' = [imp EXCEPT !.pc = "returned", !.pending = <<>>,
                                !.report = report]
          /\ imports' = Append(imports, [meetSlug |-> imp.meetSlug,
                                         report |-> report])
    /\ UNCHANGED <<results, meets, csvText, peer, bulk, testRef>>
    /\ UNCHANGED <<now, athletes, result, lastCall, prevCall, current, archived>>

(* One resultsRef.push(row) reaches the store.  Promise.all resolves with  *)
(* the last of them, and the call returns results.success = validRows.length *)
pushResult ==
    /\ imp.pc \in {"getDB", "writing", "returned"}
    /\ imp.pending # <<>>
    /\ results' = push(results, Head(imp.pending))
    /\ IF imp.pc = "returned"
       THEN /\ imp' = [imp EXCEPT !.pending = Tail(@), !.written = @ + 1]
            /\ imports' = imports
       ELSE IF Tail(imp.pending) # <<>>
       THEN /\ imp' = [imp EXCEPT !.pc = "writing", !.pending = Tail(@),
                                  !.written = @ + 1]
            /\ imports' = imports
       ELSE LET report == [imp.report EXCEPT !.success = Len(imp.validRows)]
            IN /\ imp' = [imp EXCEPT !.pc = "returned", !.pending = <<>>,
                                     !.written = @ + 1, !.report = report]
               /\ imports' = Append(imports, [meetSlug |-> imp.meetSlug,
                                              report |-> report])
    /\ UNCHANGED <<meets, csvText, peer, bulk, testRef>>
    /\ UNCHANGED <<now, athletes, result, lastCall, prevCall, current, archived>>

(* One resultsRef.push(row) is rejected.  Promise.all rejects with the     *)
(* first of them: the catch block runs and the call returns, while the     *)
(* pushes still under way settle on their own                              *)
pushRejected ==
    /\ imp.pc \in {"getDB", "writing", "returned"}
    /\ imp.pending # <<>>
    /\ IF imp.pc = "returned"
       THEN /\ imp' = [imp EXCEPT !.pending = Tail(@)]
            /\ imports' = imports
       ELSE LET report == failedReport(imp.report, imp.written)
            IN /\ imp' = [imp EXCEPT !.pc = "returned", !.pending = Tail(@),
                                     !.report = report]
               /\ imports' = Append(imports, [meetSlug |-> imp.meetSlug,
                                              report |-> report])
    /\ UNCHANGED <<results, meets, csvText, peer, bulk, testRef>>
    /\ UNCHANGED <<now, athletes, result, lastCall, prevCall, current, archived>>

(* The record checkDatabaseSchema writes under crosscountry/results *)
TestRecord ==
    [athlete_name |-> <<"TEST_SCHEMA_CHECK">>,
     time |-> Number(TestTimeHundredths * 10 ^ (FracDigits - 2)),
     meet_slug |-> "test-schema-check"]

TestRecords(store) == Cardinality({i \in 1..Len(store) : store[i] = TestRecord})

(* The call through `await testRef.set(...)`: the record is in the store *)
checkDatabaseSchema ==
    /\ testRef = 0
    /\ TestRecords(results) < MaxLeftovers
    /\ results' = push(results, TestRecord)
    /\ testRef' = Len(results')
    /\ UNCHANGED <<meets, csvText, peer, bulk, imp, imports>>
    /\ UNCHANGED <<now, athletes, result, lastCall, prevCall, current, archived>>

(* `await testRef.remove()` and the return *)
checkDatabaseSchemaCleanup ==
    /\ testRef # 0
    /\ results' = remove(results, testRef)
    /\ testRef' = 0
    /\ result' = [op |-> "checkDatabaseSchema", success |-> TRUE]
    /\ UNCHANGED <<meets, csvText, peer, bulk, imp, imports>>
    /\ UNCHANGED <<now, athletes, lastCall, prevCall, current, archived>>

(* The catch block: getDB or set fails and nothing is written, or remove   *)
(* fails and the record stays                                              *)
checkDatabaseSchemaFails ==
    /\ testRef' = 0
    /\ result' = [op |-> "checkDatabaseSchema", success |-> FALSE]
    /\ UNCHANGED <<results, meets, csvText, peer, bulk, imp, imports>>
    /\ UNCHANGED <<now, athletes, lastCall, prevCall, current, archived>>

(* The files at hand: the header line and up to MaxRows data lines *)

(* row.join(',') *)
Join(cells) ==
    LET RECURSIVE joined(_)
        joined(cs) == IF Len(cs) = 1 THEN cs[1]
                      ELSE cs[1] \o <<",">> \o joined(Tail(cs))
    IN joined(cells)

(* headers.join(','): a header name is one token *)
HeaderLine ==
    Join([i \in 1..Len(getCSVTemplateHeaders) |-> <<getCSVTemplateHeaders[i]>>])
(* "A", s ,f,1:05,5,1 *)
GoodLine ==
    Join(<< <<"\"", "A", "\"">>, <<" ", "s", " ">>, <<"f">>,
            <<"1", ":", "0", "5">>, <<"5">>, <<"1">> >>)
(* ,s,z,a,, *)
NamelessLine ==
    Join(<< <<>>, <<"s">>, <<"z">>, <<"a">>, <<>>, <<>> >>)
(* C,s,z,a,5,1 *)
TwoBadFieldsLine ==
    Join(<< <<"C">>, <<"s">>, <<"z">>, <<"a">>, <<"5">>, <<"1">> >>)
(* D,s *)
ShortLine ==
    Join(<< <<"D">>, <<"s">> >>)

SampleLines ==
    {GoodLine, NamelessLine, TwoBadFieldsLine, ShortLine}

Files ==
    {<<HeaderLine>> \o body :
        body \in UNION {[1..n -> SampleLines] : n \in 0..MaxRows}}

MeetSlugs == {"meet-a", "meet-b"}

(* One roster of seniors: the import does not read it *)
InitImport ==
    /\ now = [year |-> StartYear, month |-> June]
    /\ athletes = [a \in Athletes |->
                      [grad_year |-> StartYear, status |-> "active",
                       advancedAt |-> NoStamp, graduatedAt |-> NoStamp,
                       updatedAt |-> NoStamp]]
    /\ result = NoResult
    /\ lastCall = NoCall
    /\ prevCall = NoCall
    /\ current = NoSeason
    /\ archived = [y \in SeasonYears |-> NoSeason]
    /\ results = <<>>
    /\ meets = <<>>
    /\ csvText \in Files
    /\ bulk = NoBulk
    /\ peer = NoPeer
    /\ imp = NoImport
    /\ imports = <<>>
    /\ testRef = 0

NextImport ==
    \/ \E s \in MeetSlugs : bulkInsertResults(s)
    \/ getDBFails
    \/ pushResult
    \/ pushRejected

SpecImport == InitImport /\ [][NextImport]_vars

(* The import with the schema check at hand *)
NextSchema ==
    \/ \E s \in MeetSlugs : bulkInsertResults(s)
    \/ getDBFails
    \/ pushResult
    \/ pushRejected
    \/ checkDatabaseSchema
    \/ checkDatabaseSchemaCleanup
    \/ checkDatabaseSchemaFails

SpecSchema == InitImport /\ [][NextSchema]_vars

----------------------------------------------------------------------------
(* Meets *)

MeetNames == {"Invitational", "Regional"}
MeetData == [slug : MeetSlugs, name : MeetNames]

(* db.ref('crosscountry/meets').push(), set(meetData), and the record read *)
(* back                                                                    *)
createMeetFromCSV(meetData) ==
    /\ Len(meets) < MaxMeets
    /\ meets' = push(meets, meetData)
    /\ result' = [op |-> "createMeet", success |-> TRUE,
                  id |-> Len(meets'), meet |-> meetData]
    /\ UNCHANGED <<results, csvText, peer, bulk, imp, imports, testRef>>
    /\ UNCHANGED <<now, athletes, lastCall, prevCall, current, archived>>

(* The catch block: { error } *)
createMeetFromCSVFails ==
    /\ result' = [op |-> "createMeet", success |-> FALSE]
    /\ UNCHANGED importVars
    /\ UNCHANGED <<now, athletes, lastCall, prevCall, current, archived>>

NextMeets ==
    \/ \E meetData \in MeetData : createMeetFromCSV(meetData)
    \/ createMeetFromCSVFails

SpecMeets == InitSeason /\ [][NextMeets]_vars

----------------------------------------------------------------------------
(* The lifecycle calls over stores that hold results and meets *)

(* What one import of one good line leaves under crosscountry/results *)
ImportedOnce ==
    Validation(parseCSV(<<HeaderLine, GoodLine>>, getCSVTemplateHeaders),
               1, "meet-a").rows

CreatedOnce == <<[slug |-> "meet-a", name |-> "Invitational"]>>

(* The season the operator names in these runs *)
FrameYears == {StartYear}

InitFrame ==
    /\ now = [year |-> StartYear, month |-> June]
    /\ athletes \in [Athletes -> [grad_year : GradYears, status : {"active"},
                                  advancedAt : {NoStamp}, graduatedAt : {NoStamp},
                                  updatedAt : {NoStamp}]]
    /\ result = NoResult
    /\ lastCall = NoCall
    /\ prevCall = NoCall
    /\ current = NoSeason
    /\ archived = [y \in SeasonYears |-> NoSeason]
    /\ results \in {<<>>, ImportedOnce}
    /\ meets \in {<<>>, CreatedOnce}
    /\ csvText = <<>>
    /\ bulk = NoBulk
    /\ peer = NoPeer
    /\ imp = NoImport
    /\ imports = <<>>
    /\ testRef = 0

NextFrame ==
    \/ advanceAllAthletes /\ NotLogged
    \/ graduateAllSeniors /\ NotLogged
    \/ ManualCorrection
    \/ \E y \in FrameYears, sm \in StartMonths, em \in EndMonths :
          setCurrentSeason(y, sm, em)
    \/ \E y \in FrameYears : archiveSeason(y)

SpecFrame == InitFrame /\ [][NextFrame]_vars

----------------------------------------------------------------------------
(* Athlete status and season summary *)

(* Variant: the academic year turns over in September *)
academicYearFromSeptember(d) == IF d.month > August THEN d.year + 1 ELSE d.year

(* The academicYear local of getAthleteStatus *)
academicYearOfStatus(d) == IF d.month >= August THEN d.year + 1 ELSE d.year

(* The academicYear local of getSeasonSummary *)
academicYearOfSummary(d) == IF d.month >= August THEN d.year + 1 ELSE d.year

Grades == <<"FR", "SO", "JR", "SR">>

(* Variant: a class further out than the fourth is taken for the fourth *)
GradeClamped(yearsUntilGraduation) ==
    Grades[IF yearsUntilGraduation > Len(Grades) THEN Len(Grades)
                                                  ELSE yearsUntilGraduation]

(* ['FR', 'SO', 'JR', 'SR'][yearsUntilGraduation - 1] || 'UNKNOWN' *)
Grade(yearsUntilGraduation) ==
    IF yearsUntilGraduation \in 1..Len(Grades)
    THEN Grades[yearsUntilGraduation]
    ELSE "UNKNOWN"

(* The day count of a senior's record needs the day of the month, which    *)
(* the dates here do not carry: the record is given without it             *)
getAthleteStatus(athleteSlug) ==
    /\ IF athleteSlug \notin DOMAIN athletes
       THEN result' = [op |-> "status", status |-> "not_found"]
       ELSE LET ay == academicYearOfStatus(now)
                gradYear == athletes[athleteSlug].grad_year
            IN IF gradYear < ay
               THEN result' = [op |-> "status", status |-> "graduated",
                               athlete |-> athleteSlug,
                               graduatedYear |-> gradYear,
                               yearsAgo |-> ay - gradYear]
               ELSE IF gradYear = ay
               THEN result' = [op |-> "status", status |-> "senior",
                               athlete |-> athleteSlug,
                               graduatingYear |-> gradYear]
               ELSE result' = [op |-> "status", status |-> "active",
                               athlete |-> athleteSlug,
                               grade |-> Grade(gradYear - ay),
                               graduatingYear |-> gradYear,
                               yearsUntilGraduation |-> gradYear - ay]
    /\ UNCHANGED <<now, athletes, current, archived>>
    /\ UNCHANGED importVars

ClassCount(aths, year) ==
    Cardinality({a \in DOMAIN aths : aths[a].grad_year = year})

getSeasonSummary ==
    LET ay == academicYearOfSummary(now)
    IN /\ result' = [op |-> "summary", success |-> TRUE,
                     currentSeason |-> getCurrentSeason.year,
                     totalAthletes |-> Cardinality(DOMAIN athletes),
                     seniors |-> ClassCount(athletes, ay),
                     juniors |-> ClassCount(athletes, ay + 1),
                     sophomores |-> ClassCount(athletes, ay + 2),
                     freshmen |-> ClassCount(athletes, ay + FreshmanOffset)]
       /\ UNCHANGED <<now, athletes, current, archived>>
       /\ UNCHANGED importVars

(* The catch block: null.  The function reads `db`, which neither it nor   *)
(* the module declares: on a page with no global of that name it ends here *)
getSeasonSummaryFails ==
    /\ result' = [op |-> "summary", success |-> FALSE]
    /\ UNCHANGED <<now, athletes, current, archived>>
    /\ UNCHANGED importVars

(* Every month of every year the seasons run over *)
AllMonths == 0..DefaultEndMonth
AllDates == [year : SeasonYears, month : AllMonths]

InitQuery ==
    /\ now \in AllDates
    /\ athletes \in [Athletes -> [grad_year : GradYears, status : {"active"},
                                  advancedAt : {NoStamp}, graduatedAt : {NoStamp},
                                  updatedAt : {NoStamp}]]
    /\ result = NoResult
    /\ lastCall = NoCall
    /\ prevCall = NoCall
    /\ current = NoSeason
    /\ archived = [y \in SeasonYears |-> NoSeason]
    /\ NothingImported

NextQuery ==
    \/ \E s \in Athletes \cup {NoSuchAthlete} : getAthleteStatus(s) /\ Logged
    \/ getSeasonSummary /\ Logged
    \/ getSeasonSummaryFails /\ Logged
    \/ advanceAllAthletes /\ Logged
    \/ graduateAllSeniors /\ Logged

SpecQuery == InitQuery /\ [][NextQuery]_vars

(* The catch block of getAthleteStatus: the store cannot be read *)
getAthleteStatusFails ==
    /\ result' = [op |-> "status", status |-> "error"]
    /\ UNCHANGED <<now, athletes, current, archived>>
    /\ UNCHANGED importVars

(* Rosters of every class: last year's graduates up to athletes ClassSpan  *)
(* years ahead of the first year                                           *)
StatusGradYears == (StartYear - 1)..(StartYear + ClassSpan)
StatusDates == [year : Years, month : AllMonths]

InitStatus ==
    /\ now \in StatusDates
    /\ athletes \in [Athletes -> [grad_year : StatusGradYears, status : {"active"},
                                  advancedAt : {NoStamp}, graduatedAt : {NoStamp},
                                  updatedAt : {NoStamp}]]
    /\ result = NoResult
    /\ lastCall = NoCall
    /\ prevCall = NoCall
    /\ current = NoSeason
    /\ archived = [y \in SeasonYears |-> NoSeason]
    /\ NothingImported

NextStatus ==
    \/ \E s \in Athletes \cup {NoSuchAthlete} : getAthleteStatus(s) /\ NotLogged
    \/ getAthleteStatusFails /\ NotLogged

SpecStatus == InitStatus /\ [][NextStatus]_vars

----------------------------------------------------------------------------
(* The bulk transitions write by write *)

(* The fields one update() call sets, taken from the record the call read *)
(* Variant: the payload carries the grad_year as read *)
advancePayloadAsRead(rec, d) ==
    [grad_year |-> rec.grad_year, advancedAt |-> d]

advancePayload(rec, d) ==
    LET u == advanceUpdate(rec, d)
    IN [grad_year |-> u.grad_year, advancedAt |-> u.advancedAt]

graduatePayload(rec, ay, d) ==
    LET u == graduateUpdate(rec, ay, d)
    IN [grad_year |-> u.grad_year, graduatedAt |-> u.graduatedAt,
        status |-> u.status]

(* ref.update(payload): the named fields are set, the others stay *)
update(rec, payload) ==
    [f \in DOMAIN rec |-> IF f \in DOMAIN payload THEN payload[f] ELSE rec[f]]

(* snapshotToArray: the children in key order *)
RECURSIVE InKeyOrder(_)
InKeyOrder(ids) ==
    IF ids = {} THEN <<>>
    ELSE LET first == CHOOSE a \in ids : \A b \in ids : a <= b
         IN <<first>> \o InKeyOrder(ids \ {first})

(* The call from its start to `await Promise.all(updates)`: one update is  *)
(* issued for every selected athlete; with none selected the call returns  *)
(* at once                                                                 *)
Issue(op, selected, payloads) ==
    /\ bulk.pc \in {"idle", "returned"}
    /\ bulk.pending = {}
    /\ IF selected = {}
       THEN /\ bulk' = [pc |-> "returned", op |-> op, selected |-> selected,
                        issued |-> <<>>, pending |-> {}, payloads |-> payloads]
            /\ result' = [op |-> op, success |-> TRUE, count |-> 0,
                          athletes |-> {}]
       ELSE /\ bulk' = [pc |-> "awaiting", op |-> op, selected |-> selected,
                        issued |-> InKeyOrder(selected), pending |-> selected,
                        payloads |-> payloads]
            /\ result' = result
    /\ UNCHANGED <<now, athletes, current, archived>>
    /\ UNCHANGED <<results, meets, csvText, peer, imp, imports, testRef>>

advanceAllAthletesIssue ==
    LET active == activeAthletes(athletes, academicYear(now))
    IN Issue("advance", active,
             [a \in active |-> advancePayload(athletes[a], now)])

graduateAllSeniorsIssue ==
    LET ay == academicYear(now)
        srs == seniors(athletes, ay)
    IN Issue("graduate", srs,
             [a \in srs |-> graduatePayload(athletes[a], ay, now)])

(* getDB() or the read of the roster throws: the catch block *)
bulkReadFails ==
    /\ bulk.pc \in {"idle", "returned"}
    /\ bulk.pending = {}
    /\ \E op \in {"advance", "graduate"} :
          /\ bulk' = [pc |-> "returned", op |-> op, selected |-> {},
                      issued |-> <<>>, pending |-> {}, payloads |-> <<>>]
          /\ result' = [op |-> op, success |-> FALSE, count |-> 0,
                        athletes |-> {}]
    /\ UNCHANGED <<now, athletes, current, archived>>
    /\ UNCHANGED <<results, meets, csvText, peer, imp, imports, testRef>>

(* One update reaches the store.  Promise.all resolves with the last, and  *)
(* the call returns its count                                              *)
updateSettles ==
    /\ bulk.pending # {}
    /\ \E a \in bulk.pending :
          /\ athletes' = [athletes EXCEPT ![a] = update(@, bulk.payloads[a])]
          /\ IF bulk.pc = "awaiting" /\ bulk.pending = {a}
             THEN /\ bulk' = [bulk EXCEPT !.pc = "returned", !.pending = {}]
                  /\ result' = [op |-> bulk.op, success |-> TRUE,
                                count |-> Cardinality(bulk.selected),
                                athletes |-> bulk.selected]
             ELSE /\ bulk' = [bulk EXCEPT !.pending = @ \ {a}]
                  /\ result' = result
    /\ UNCHANGED <<now, current, archived>>
    /\ UNCHANGED <<results, meets, csvText, peer, imp, imports, testRef>>

(* One update is rejected by the store.  Promise.all rejects with the      *)
(* first update that fails: the call goes to its catch block and returns,  *)
(* whatever is still under way                                             *)
updateRejected ==
    /\ bulk.pending # {}
    /\ \E a \in bulk.pending :
          /\ bulk' = [bulk EXCEPT !.pc = "returned", !.pending = @ \ {a}]
          /\ result' = IF bulk.pc = "awaiting"
                       THEN [op |-> bulk.op, success |-> FALSE, count |-> 0,
                             athletes |-> {}]
                       ELSE result
    /\ UNCHANGED <<now, athletes, current, archived>>
    /\ UNCHANGED <<results, meets, csvText, peer, imp, imports, testRef>>

NextBulk ==
    \/ advanceAllAthletesIssue /\ NotLogged
    \/ graduateAllSeniorsIssue /\ NotLogged
    \/ bulkReadFails /\ NotLogged
    \/ updateSettles /\ NotLogged
    \/ updateRejected /\ NotLogged

SpecBulk == Init /\ [][NextBulk]_vars

----------------------------------------------------------------------------
(* The import field by field: files of one row, one field varied at a time *)

(* 1:05, 5, 1, M: the values bulkInsertResults accepts *)
GoodTime == <<"1", ":", "0", "5">>
GoodDistance == <<"5">>
GoodPlace == <<"1">>
GoodGender == <<"M">>

(* 600:00 and 10:00:00 are 36000 seconds, 600:00.01 is just above *)
LimitTime == <<"6", "0", "0", ":", "0", "0">>
LimitHours == <<"1", "0", ":", "0", "0", ":", "0", "0">>
OverLimitTime == <<"6", "0", "0", ":", "0", "0", ".", "0", "1">>

TimeTexts ==
    {GoodTime, LimitTime, LimitHours, OverLimitTime, Null,
     <<"1", "8", ":", "3", "0", ".", "4", "5">>,
     <<"1", "8", ":", "3", "0", ".", "4", "5", "6">>,
     <<"1", ":", "0", "2", ":", "0", "3">>,
     <<"1", "2", "0", "0", ".", "5">>,
     <<"b", "o", "g", "u", "s">>,
     <<"1", "a", ":", "3", "0">>,
     <<"1", ":", "2", ":", "3", ":", "4">>,
     <<":", "3", "0">>,
     <<"-", "5">>,
     <<"-", "1", ":", "3", "0">>}

DistanceTexts ==
    {GoodDistance, Null, <<"3", ".", "1">>, <<"1", "2", "a", "b", "c">>,
     <<"a", "b", "c">>}

PlaceTexts ==
    {GoodPlace, Null, <<"1", "2">>, <<"3", ".", "7">>,
     <<"1", "2", "a", "b", "c">>, <<"x">>}

GenderTexts ==
    {GoodGender, Null, <<"F">>, <<"m">>, <<"f">>, <<"X">>, <<"m", "f">>}

FieldLine(gender, time, distance, place) ==
    Join(<< <<"A">>, <<"s">>, gender, time, distance, place >>)

FieldLines ==
    {FieldLine(g, GoodTime, GoodDistance, GoodPlace) : g \in GenderTexts}
    \cup {FieldLine(GoodGender, t, GoodDistance, GoodPlace) : t \in TimeTexts}
    \cup {FieldLine(GoodGender, GoodTime, d, GoodPlace) : d \in DistanceTexts}
    \cup {FieldLine(GoodGender, GoodTime, GoodDistance, p) : p \in PlaceTexts}

(* One row, and the two rows at the limit of the running time *)
FieldFiles ==
    {<<HeaderLine, line>> : line \in FieldLines}
    \cup {<<HeaderLine,
            FieldLine(GoodGender, LimitTime, GoodDistance, GoodPlace),
            FieldLine(GoodGender, OverLimitTime, GoodDistance, GoodPlace)>>}

InitFields ==
    /\ now = [year |-> StartYear, month |-> June]
    /\ athletes = [a \in Athletes |->
                      [grad_year |-> StartYear, status |-> "active",
                       advancedAt |-> NoStamp, graduatedAt |-> NoStamp,
                       updatedAt |-> NoStamp]]
    /\ result = NoResult
    /\ lastCall = NoCall
    /\ prevCall = NoCall
    /\ current = NoSeason
    /\ archived = [y \in SeasonYears |-> NoSeason]
    /\ results = <<>>
    /\ meets = <<>>
    /\ csvText \in FieldFiles
    /\ bulk = NoBulk
    /\ peer = NoPeer
    /\ imp = NoImport
    /\ imports = <<>>
    /\ testRef = 0

SpecFields == InitFields /\ [][NextImport]_vars

----------------------------------------------------------------------------
(* Showing a stored time (src/CrossCountry/advanced-features.js) *)

(* n.toString() of a natural number *)
RECURSIVE toString(_)
toString(n) ==
    LET last == CHOOSE c \in Digits : DigitValue[c] = n % 10
    IN IF n < 10 THEN <<last>> ELSE toString(n \div 10) \o <<last>>

RECURSIVE padStart(_, _, _)
padStart(s, targetLength, padString) ==
    IF Len(s) >= targetLength THEN s
    ELSE padStart(padString \o s, targetLength, padString)

(* Math.round(x * 100) of a fraction x given in units of 1/Scale *)
RoundHundredths(x) ==
    LET hundredth == Scale \div HundredthsPerSecond
    IN (x + hundredth \div 2) \div hundredth

(* Variant: the hundredths are written without the leading zero *)
formatTimeUnpadded(seconds) ==
    IF seconds.kind # "number" THEN Null
    ELSE LET sec == seconds.v
             minutes == sec \div (SecondsPerMinute * Scale)
             secs == (sec % (SecondsPerMinute * Scale)) \div Scale
             ms == RoundHundredths(sec % Scale)
         IN toString(minutes) \o <<":">> \o padStart(toString(secs), 2, <<"0">>)
               \o <<".">> \o toString(ms)

(* formatTime of a time that is not negative: null gives '' *)
formatTime(seconds) ==
    IF seconds.kind # "number" THEN Null
    ELSE LET sec == seconds.v
             minutes == sec \div (SecondsPerMinute * Scale)
             secs == (sec % (SecondsPerMinute * Scale)) \div Scale
             ms == RoundHundredths(sec % Scale)
         IN toString(minutes) \o <<":">> \o padStart(toString(secs), 2, <<"0">>)
               \o <<".">> \o padStart(toString(ms), 2, <<"0">>)

(* The times on show: minutes, seconds and hundredths that sit at the ends *)
(* of their ranges and inside them, up to the 36000 seconds the import     *)
(* lets through, and a result without a time                               *)
ShownMinutes == {0, 1, 9, 10, 18, 59, 60, 599}
ShownSeconds == {0, 1, 9, 10, 30, 59}
ShownHundredths == {0, 1, 5, 9, 10, 45, 50, 99}
ShownTimes ==
    {Number((m * SecondsPerMinute + s) * Scale
              + h * (Scale \div HundredthsPerSecond)) :
        m \in ShownMinutes, s \in ShownSeconds, h \in ShownHundredths}
    \cup {Number(MaxTimeSeconds * Scale), NullNumber}

ShownResult(time) ==
    [Converted(parseCSV(<<HeaderLine, GoodLine>>, getCSVTemplateHeaders)[1],
               "meet-a") EXCEPT !.time = time]

InitFormat ==
    /\ now = [year |-> StartYear, month |-> June]
    /\ athletes = [a \in Athletes |->
                      [grad_year |-> StartYear, status |-> "active",
                       advancedAt |-> NoStamp, graduatedAt |-> NoStamp,
                       updatedAt |-> NoStamp]]
    /\ result = NoResult
    /\ lastCall = NoCall
    /\ prevCall = NoCall
    /\ current = NoSeason
    /\ archived = [y \in SeasonYears |-> NoSeason]
    /\ \E time \in ShownTimes : results = <<ShownResult(time)>>
    /\ meets = <<>>
    /\ csvText = <<>>
    /\ bulk = NoBulk
    /\ peer = NoPeer
    /\ imp = NoImport
    /\ imports = <<>>
    /\ testRef = 0

(* formatTime(result.time) of a stored result *)
FormatStored ==
    /\ \E j \in 1..Len(results) :
          result' = [op |-> "formatTime", seconds |-> results[j].time,
                     text |-> formatTime(results[j].time)]
    /\ UNCHANGED <<now, athletes, lastCall, prevCall, current, archived>>
    /\ UNCHANGED importVars

(* parseTimeToSeconds of the text formatTime gave *)
ParseShown ==
    /\ result.op = "formatTime"
    /\ result' = [op |-> "parseTimeToSeconds", shown |-> result.seconds,
                  text |-> result.text,
                  seconds |-> parseTimeToSeconds(result.text)]
    /\ UNCHANGED <<now, athletes, lastCall, prevCall, current, archived>>
    /\ UNCHANGED importVars

NextFormat ==
    \/ FormatStored
    \/ ParseShown

SpecFormat == InitFormat /\ [][NextFormat]_vars

----------------------------------------------------------------------------
(* Season data *)

(* An athlete record as the roster pages keep it: the slug and the name    *)
(* next to the fields of the lifecycle.  Athlete 1 is the "A" of GoodLine  *)
RosterSlug(a) == <<"a">> \o toString(a)
RosterName(a) == IF a = 1 THEN <<"A">> ELSE <<"N">> \o toString(a)

(* Dates of meets: date-only ISO strings, read by `new Date` as midnight   *)
(* UTC.  A meet of the season and a meet on New Year's Day                 *)
MeetDates ==
    {[year |-> StartYear, month |-> DefaultStartMonth + 1, day |-> 13],
     [year |-> StartYear + 1, month |-> 1, day |-> 1]}

(* new Date(meet.date).getFullYear(): the year of the date in local time,  *)
(* the year before for midnight UTC of January 1st west of Greenwich       *)
getFullYear(date, west) ==
    IF west /\ date.month = 1 /\ date.day = 1 THEN date.year - 1
    ELSE date.year

(* new Date(a.date) - new Date(b.date) orders by the calendar *)
Before(d, e) ==
    \/ d.year < e.year
    \/ d.year = e.year /\ d.month < e.month
    \/ d.year = e.year /\ d.month = e.month /\ d.day < e.day

(* meets.sort((a, b) => new Date(a.date) - new Date(b.date)): stable *)
RECURSIVE sortByDate(_)
sortByDate(ms) ==
    IF ms = <<>> THEN <<>>
    ELSE LET i == CHOOSE i \in 1..Len(ms) :
                      /\ \A j \in 1..Len(ms) : ~Before(ms[j].date, ms[i].date)
                      /\ \A j \in 1..(i - 1) : Before(ms[i].date, ms[j].date)
         IN <<ms[i]>> \o sortByDate(remove(ms, i))

(* results.map(r => r.athlete_slug).filter(Boolean): the slugs the results *)
(* carry; a result without the field gives undefined, which is dropped     *)
athleteSlugsOf(rs) ==
    {rs[i].athlete_slug :
        i \in {j \in 1..Len(rs) : "athlete_slug" \in DOMAIN rs[j]}}

(* getSeasonData(seasonYear): three reads and the three filters *)
SeasonData(seasonYear, west) ==
    LET inYear(meet) == /\ "date" \in DOMAIN meet
                        /\ getFullYear(meet.date, west) = seasonYear
        seasonMeets == SelectSeq(meets, inYear)
        meetSlugs == {seasonMeets[i].slug : i \in 1..Len(seasonMeets)}
        ofMeets(r) == r.meet_slug \in meetSlugs
        seasonResults == SelectSeq(results, ofMeets)
        athleteSlugs == athleteSlugsOf(seasonResults)
        named(a) == athletes[a].slug \in athleteSlugs
        seasonAthletes == SelectSeq(InKeyOrder(DOMAIN athletes), named)
    IN [op |-> "getSeasonData", success |-> TRUE, year |-> seasonYear,
        meets |-> sortByDate(seasonMeets),
        results |-> seasonResults,
        athletes |-> seasonAthletes,
        totalMeets |-> Len(seasonMeets),
        totalResults |-> Len(seasonResults),
        totalAthletes |-> Len(seasonAthletes)]

getSeasonData(seasonYear) ==
    /\ \E west \in BOOLEAN : result' = SeasonData(seasonYear, west)
    /\ UNCHANGED importVars
    /\ UNCHANGED <<now, athletes, lastCall, prevCall, current, archived>>

(* The catch block: a read fails and the call returns null *)
getSeasonDataFails ==
    /\ result' = [op |-> "getSeasonData", success |-> FALSE]
    /\ UNCHANGED importVars
    /\ UNCHANGED <<now, athletes, lastCall, prevCall, current, archived>>

(* A result entered with the slug of its athlete, as getSeasonData reads it *)
SluggedResult ==
    [athlete_slug |-> RosterSlug(NumAthletes),
     athlete_name |-> RosterName(NumAthletes),
     time |-> Number(TestTimeHundredths * 10 ^ (FracDigits - 2)),
     meet_slug |-> "meet-a"]

SeasonMeetData ==
    [slug : MeetSlugs, name : {"Invitational"}, date : MeetDates]
        \cup [slug : MeetSlugs, name : {"Invitational"}]

DataYears == StartYear..(StartYear + 1)

InitData ==
    /\ now = [year |-> StartYear, month |-> June]
    /\ athletes = [a \in Athletes |->
                      [slug |-> RosterSlug(a), name |-> RosterName(a),
                       grad_year |-> StartYear + 1, status |-> "active",
                       advancedAt |-> NoStamp, graduatedAt |-> NoStamp,
                       updatedAt |-> NoStamp]]
    /\ result = NoResult
    /\ lastCall = NoCall
    /\ prevCall = NoCall
    /\ current = NoSeason
    /\ archived = [y \in SeasonYears |-> NoSeason]
    /\ results \in {<<>>, <<SluggedResult>>}
    /\ meets = <<>>
    /\ csvText = <<HeaderLine, GoodLine>>
    /\ bulk = NoBulk
    /\ peer = NoPeer
    /\ imp = NoImport
    /\ imports = <<>>
    /\ testRef = 0

NextData ==
    \/ \E meetData \in SeasonMeetData : createMeetFromCSV(meetData)
    \/ \E s \in MeetSlugs : bulkInsertResults(s)
    \/ pushResult
    \/ \E y \in DataYears : getSeasonData(y)
    \/ getSeasonDataFails

SpecData == InitData /\ [][NextData]_vars

----------------------------------------------------------------------------
(* Two operators: the bulk transition of the first, under way in `bulk`,   *)
(* and the call of the second, under way in `peer`                         *)

(* advanceAllAthletes of the second operator, from its read of the roster  *)
(* to `await Promise.all(updates)`.  The record keeps what the call read   *)
(* and whether the call of the first operator was under way at that moment *)
peerAdvanceAllAthletesIssue ==
    LET active == activeAthletes(athletes, academicYear(now))
        call == [op |-> "advance", selected |-> active,
                 payloads |-> [a \in active |->
                                  advancePayload(athletes[a], now)],
                 before |-> Roster(athletes),
                 overlaps |-> bulk.pc = "awaiting"]
    IN /\ peer.pc = "idle"
       /\ bulk.pc # "idle"
       /\ peer' = IF active = {}
                  THEN call @@ [pc |-> "returned", pending |-> {},
                                result |-> [op |-> "advance", success |-> TRUE,
                                            count |-> 0, athletes |-> {}]]
                  ELSE call @@ [pc |-> "awaiting", pending |-> active,
                                result |-> NoResult]
       /\ UNCHANGED <<results, meets, csvText, bulk, imp, imports, testRef>>
       /\ UNCHANGED <<now, athletes, result, lastCall, prevCall, current,
                      archived>>

(* One update of the second operator's call reaches the store; with the    *)
(* last of them the call returns its count                                 *)
peerUpdateSettles ==
    /\ peer.pc = "awaiting"
    /\ \E a \in peer.pending :
          /\ athletes' = [athletes EXCEPT ![a] = update(@, peer.payloads[a])]
          /\ peer' = IF peer.pending = {a}
                     THEN [peer EXCEPT
                             !.pc = "returned", !.pending = {},
                             !.result = [op |-> "advance", success |-> TRUE,
                                         count |-> Cardinality(peer.selected),
                                         athletes |-> peer.selected]]
                     ELSE [peer EXCEPT !.pending = @ \ {a}]
    /\ UNCHANGED <<results, meets, csvText, bulk, imp, imports, testRef>>
    /\ UNCHANGED <<now, result, lastCall, prevCall, current, archived>>

(* updateAthleteGradYear of the second operator, made while the call of    *)
(* the first is under way: the athlete is found and its update reaches the *)
(* store                                                                   *)
peerUpdateAthleteGradYear(athleteSlug, newGradYear) ==
    /\ peer.pc = "idle"
    /\ bulk.pc = "awaiting"
    /\ athleteSlug \in DOMAIN athletes
    /\ athletes' = [athletes EXCEPT
                      ![athleteSlug] = gradYearUpdate(@, newGradYear, now)]
    /\ peer' = [pc |-> "returned", op |-> "update", selected |-> {athleteSlug},
                newGradYear |-> newGradYear, pending |-> {},
                before |-> Roster(athletes), overlaps |-> TRUE,
                result |-> [op |-> "update", success |-> TRUE, count |-> 1,
                            athletes |-> {athleteSlug}]]
    /\ UNCHANGED <<results, meets, csvText, bulk, imp, imports, testRef>>
    /\ UNCHANGED <<now, result, lastCall, prevCall, current, archived>>

(* The first operator calls advanceAllAthletes once, and the call is       *)
(* logged with the roster it read; the second operator calls               *)
(* advanceAllAthletes once, or updateAthleteGradYear while the call of the *)
(* first is under way                                                      *)
NextRace ==
    \/ bulk.pc = "idle" /\ advanceAllAthletesIssue /\ Logged
    \/ updateSettles /\ NotLogged
    \/ peerAdvanceAllAthletesIssue
    \/ peerUpdateSettles
    \/ \E s \in Athletes, y \in CorrectionYears :
          peerUpdateAthleteGradYear(s, y)

SpecRace == Init /\ [][NextRace]_vars

----------------------------------------------------------------------------
(* Two imports at a time: bulkInsertResults of the first operator, under   *)
(* way in `imp`, and of the second operator, under way in `peer`           *)

(* B,s,m,1:07,5,2 *)
PeerLine ==
    Join(<< <<"B">>, <<"s">>, <<"m">>, <<"1", ":", "0", "7">>, <<"5">>,
            <<"2">> >>)

(* The files of the two operators: one or two rows, the second operator's  *)
(* with a row the first operator's file holds as well                      *)
PairFiles == {<<HeaderLine, GoodLine>>, <<HeaderLine, GoodLine, GoodLine>>}
PeerFiles == {<<HeaderLine, PeerLine>>, <<HeaderLine, GoodLine, PeerLine>>}

(* The call of the second operator up to `await Promise.all(promises)`,    *)
(* made once the first operator has called: every row is validated and one *)
(* push is issued for every valid row                                      *)
peerBulkInsertResults(meetSlug, file) ==
    LET csvData == parseCSV(file, getCSVTemplateHeaders)
        checked == Validation(csvData, 1, meetSlug)
        report == [success |-> 0, errors |-> checked.errors,
                   total |-> Len(csvData)]
    IN /\ peer.pc = "idle"
       /\ imp.pc # "idle"
       /\ peer' = [pc |-> IF checked.rows = <<>> THEN "returned"
                                                 ELSE "writing",
                   meetSlug |-> meetSlug, validRows |-> checked.rows,
                   pending |-> checked.rows, written |-> 0,
                   report |-> report,
                   overlaps |-> imp.pc \in {"getDB", "writing"}]
       /\ UNCHANGED <<results, meets, csvText, bulk, imp, imports, testRef>>
       /\ UNCHANGED <<now, athletes, result, lastCall, prevCall, current,
                      archived>>

(* One push of the second operator's call reaches the store; with the last *)
(* of them the call returns results.success = validRows.length             *)
peerPushResult ==
    /\ peer.pc \in {"writing", "returned"}
    /\ peer.pending # <<>>
    /\ results' = push(results, Head(peer.pending))
    /\ peer' = IF peer.pc = "writing" /\ Tail(peer.pending) = <<>>
               THEN [peer EXCEPT
                       !.pc = "returned", !.pending = <<>>, !.written = @ + 1,
                       !.report = [@ EXCEPT !.success = Len(peer.validRows)]]
               ELSE [peer EXCEPT !.pending = Tail(@), !.written = @ + 1]
    /\ UNCHANGED <<meets, csvText, bulk, imp, imports, testRef>>
    /\ UNCHANGED <<now, athletes, result, lastCall, prevCall, current,
                   archived>>

(* One push of the second operator's call is rejected: the catch block,    *)
(* while the pushes still under way settle on their own                    *)
peerPushRejected ==
    /\ peer.pc \in {"writing", "returned"}
    /\ peer.pending # <<>>
    /\ peer' = IF peer.pc = "writing"
               THEN [peer EXCEPT
                       !.pc = "returned", !.pending = Tail(@),
                       !.report = failedReport(peer.report, peer.written)]
               ELSE [peer EXCEPT !.pending = Tail(@)]
    /\ UNCHANGED <<results, meets, csvText, bulk, imp, imports, testRef>>
    /\ UNCHANGED <<now, athletes, result, lastCall, prevCall, current,
                   archived>>

InitImports ==
    /\ now = [year |-> StartYear, month |-> June]
    /\ athletes = [a \in Athletes |->
                      [grad_year |-> StartYear, status |-> "active",
                       advancedAt |-> NoStamp, graduatedAt |-> NoStamp,
                       updatedAt |-> NoStamp]]
    /\ result = NoResult
    /\ lastCall = NoCall
    /\ prevCall = NoCall
    /\ current = NoSeason
    /\ archived = [y \in SeasonYears |-> NoSeason]
    /\ results = <<>>
    /\ meets = <<>>
    /\ csvText \in PairFiles
    /\ peer = NoPeer
    /\ bulk = NoBulk
    /\ imp = NoImport
    /\ imports = <<>>
    /\ testRef = 0

(* Each operator imports one file *)
NextImports ==
    \/ \E s \in MeetSlugs : imp.pc = "idle" /\ bulkInsertResults(s)
    \/ getDBFails
    \/ pushResult
    \/ pushRejected
    \/ \E s \in MeetSlugs, file \in PeerFiles : peerBulkInsertResults(s, file)
    \/ peerPushResult
    \/ peerPushRejected

SpecImports == InitImports /\ [][NextImports]_vars

----------------------------------------------------------------------------
(* Claims *)

Advanced == lastCall.result.op = "advance"
Graduated == lastCall.result.op = "graduate"

C2_DistantFreshmanUnchanged ==
    (Advanced /\ lastCall.ay = StartYear) =>
        \A a \in Athletes :
            lastCall.before[a].grad_year = StartYear + FreshmanOffset =>
                athletes[a].grad_year = StartYear + FreshmanOffset

(* C3: two successive advanceAllAthletes calls in the same academic year   *)
(* AY reduce grad_year by exactly 2 for every athlete whose grad_year was  *)
(* > AY before the first call and by exactly 1 for one whose grad_year     *)
(* was = AY: no "already advanced this year" marker holds the second back  *)
AdvancedTwice ==
    /\ prevCall.result.op = "advance"
    /\ lastCall.result.op = "advance"
    /\ prevCall.ay = lastCall.ay

GraduatedTwice ==
    /\ prevCall.result.op = "graduate"
    /\ lastCall.result.op = "graduate"
    /\ prevCall.ay = lastCall.ay

C6_OneYearCloserPerAcademicYear ==
    (/\ prevCall.result.op = "graduate"
     /\ lastCall.result.op = "advance"
     /\ lastCall.ay = prevCall.ay + 1) =>
        \A a \in Athletes :
            prevCall.before[a].grad_year = prevCall.ay + 1 =>
                /\ athletes[a].grad_year = lastCall.ay
                /\ ~(athletes[a].grad_year < academicYear(now))

(* C7: no advanceAllAthletes or graduateAllSeniors step, at any date,      *)
(* increases an athlete's grad_year                                        *)
C7_GradYearNeverIncreases ==
    [][\A a \in Athletes : athletes'[a].grad_year <= athletes[a].grad_year]_vars

C7_Witness ==
    /\ prevCall.result.op = "advance"
    /\ lastCall.result.op = "graduate"
    /\ prevCall.result.count > 0
    /\ lastCall.result.count > 0

(* C8: with updateAthleteGradYear among the calls, an athlete whose status *)
(* is 'graduated' has a grad_year strictly less than the academic year in  *)
(* which graduateAllSeniors marked it                                      *)
C8_GraduatedInThePast ==
    \A a \in Athletes :
        athletes[a].status = "graduated" =>
            athletes[a].grad_year < academicYear(athletes[a].graduatedAt)

(* The same holds of every graduated athlete that updateAthleteGradYear    *)
(* has not rewritten since it was marked: only the manual correction       *)
(* breaks it                                                               *)
NotCorrectedSince(rec) ==
    rec.updatedAt = NoStamp \/ Earlier(rec.updatedAt, rec.graduatedAt)

GraduatedInThePastUnlessCorrected ==
    \A a \in Athletes :
        (athletes[a].status = "graduated" /\ NotCorrectedSince(athletes[a])) =>
            athletes[a].grad_year < academicYear(athletes[a].graduatedAt)

(* C9: an archived season is immutable: once archived[y] is written, no    *)
(* later setCurrentSeason or archiveSeason call, another archiveSeason(y)  *)
(* included, changes its content                                           *)
C9_ArchivedSeasonImmutable ==
    [][\A y \in SeasonYears :
          archived[y] # NoSeason => archived'[y] = archived[y]]_vars

(* C10: every record written under archived[...] is, apart from            *)
(* archivedAt, a copy of the value stored under seasons/current when       *)
(* archiveSeason ran, and none is written while no current season has      *)
(* ever been set                                                           *)
WithoutArchivedAt(rec) == [f \in DOMAIN rec \ {"archivedAt"} |-> rec[f]]

C10_ArchiveCopiesStoredCurrent ==
    [][\A y \in SeasonYears :
          archived'[y] # archived[y] =>
             /\ current # NoSeason
             /\ WithoutArchivedAt(archived'[y]) = current]_vars

(* C11: no lifecycle operation (advanceAllAthletes, graduateAllSeniors,    *)
(* updateAthleteGradYear, setCurrentSeason, archiveSeason) creates,        *)
(* modifies or deletes any Result or Meet record: every step of one of     *)
(* them leaves crosscountry/results and crosscountry/meets as they were    *)
LifecycleStep ==
    \/ advanceAllAthletes
    \/ graduateAllSeniors
    \/ \E s \in Athletes \cup {NoSuchAthlete}, y \in CorrectionYears :
          updateAthleteGradYear(s, y)
    \/ \E y \in SeasonYears, sm \in StartMonths, em \in EndMonths :
          setCurrentSeason(y, sm, em)
    \/ \E y \in SeasonYears : archiveSeason(y)

C11_LifecycleLeavesResultsAndMeets ==
    [][LifecycleStep => (results' = results /\ meets' = meets)]_vars

C11_Witness ==
    /\ results # <<>>
    /\ meets # <<>>
    /\ \E a \in Athletes : athletes[a].status = "graduated"
    /\ \E a \in Athletes : athletes[a].advancedAt # NoStamp
    /\ Corrected # {}
    /\ current # NoSeason
    /\ archived[StartYear] # NoSeason

(* C12: results are append-only and created only by import: each stored    *)
(* Result was produced by an accepted row of some bulkInsertResults call,  *)
(* and no step of the helper module, checkDatabaseSchema included,         *)
(* updates, deletes or adds a Result that is not an imported row           *)
ImportedRows ==
    UNION {LET rows == Validation(parseCSV(csvText, getCSVTemplateHeaders),
                                  1, s).rows
           IN {rows[j] : j \in 1..Len(rows)} : s \in MeetSlugs}

IsPrefix(s, t) == Len(s) <= Len(t) /\ SubSeq(t, 1, Len(s)) = s

C12_ResultsOnlyFromImport ==
    [][/\ \A i \in 1..Len(results') : results'[i] \in ImportedRows
       /\ IsPrefix(results, results')]_vars

(* What a report says of row i: the reasons it gives for it, in order *)
RECURSIVE Reasons(_, _)
Reasons(errors, i) ==
    IF errors = <<>> THEN <<>>
    ELSE IF Head(errors)[1] = i
    THEN <<Head(errors)[2]>> \o Reasons(Tail(errors), i)
    ELSE Reasons(Tail(errors), i)

Persisted(report) == Reasons(report.errors, DatabaseError[1]) = <<>>

RejectedRows(report) ==
    {report.errors[k][1] : k \in 1..Len(report.errors)} \ {DatabaseError[1]}

(* The rows of csvData from row `from` on that a set of row numbers leaves *)
RECURSIVE RowsNotIn(_, _, _)
RowsNotIn(csvData, from, rejected) ==
    IF from > Len(csvData) THEN <<>>
    ELSE IF from \in rejected THEN RowsNotIn(csvData, from + 1, rejected)
    ELSE <<csvData[from]>> \o RowsNotIn(csvData, from + 1, rejected)

Returned == imp.pc = "returned"

(* C13: for every import whose persistence succeeds, each row of csvData   *)
(* is either accepted or rejected with at least one reason, never both,    *)
(* and success + rejected rows = total; a row without athlete_name is      *)
(* rejected with the one reason 'Missing required fields', and the other   *)
(* rows are still processed                                                *)
C13_AcceptedPlusRejectedIsTotal ==
    (Returned /\ Persisted(imp.report)) =>
        LET csvData == parseCSV(csvText, getCSVTemplateHeaders)
            report == imp.report
            rejected == RejectedRows(report)
            accepted == RowsNotIn(csvData, 1, rejected)
        IN /\ report.total = Len(csvData)
           /\ rejected \subseteq 1..report.total
           /\ report.success + Cardinality(rejected) = report.total
           /\ Len(imp.validRows) = report.success
           /\ \A k \in 1..Len(accepted) :
                 /\ imp.validRows[k].athlete_name = accepted[k].athlete_name
                 /\ imp.validRows[k].athlete_name # Null
                 /\ FieldFailure(accepted[k]) = "none"
           /\ \A i \in 1..report.total :
                 csvData[i].athlete_name = Null =>
                    Reasons(report.errors, i) = <<"Missing required fields">>

C13_Witness ==
    /\ Returned
    /\ imp.report = [success |-> 2, total |-> 3,
                     errors |-> <<<<2, "Missing required fields">>>>]
    /\ Len(results) = 2

(* C14: a data line whose number of comma-separated values differs from    *)
(* the number of headers appears in the report of the import as a rejected *)
(* row with the reason ColumnCountMismatch and is counted in total, and    *)
(* the other lines are still processed                                     *)
DataLines == Tail(csvText)

ColumnCountMismatch(line) ==
    Len(LineValues(Trim(line))) # Len(getCSVTemplateHeaders)

C14_ColumnCountMismatchReported ==
    Returned =>
        /\ imp.report.total = Len(DataLines)
        /\ \A i \in 1..Len(DataLines) :
              ColumnCountMismatch(DataLines[i]) =>
                 Reasons(imp.report.errors, i) = <<"ColumnCountMismatch">>

(* C15: field-level validation accumulates: for a row with an              *)
(* athlete_name, the number of reasons the report gives for it equals the  *)
(* number of its fields among time, distance, place and gender that fail   *)
(* validation, and the row is accepted exactly when that number is zero    *)
TimeFails(row) ==
    /\ row.time # Null
    /\ \/ isNaN(parseTimeToSeconds(row.time))
       \/ parseTimeToSeconds(row.time).v > MaxTimeSeconds * Scale

DistanceFails(row) == row.distance # Null /\ isNaN(parseFloat(row.distance))

PlaceFails(row) == row.place # Null /\ isNaN(parseInt(row.place))

GenderFails(row) ==
    row.gender # Null /\ toUpperCase(row.gender) \notin {<<"M">>, <<"F">>}

FailingFields(row) ==
    (IF TimeFails(row) THEN 1 ELSE 0) + (IF DistanceFails(row) THEN 1 ELSE 0)
    + (IF PlaceFails(row) THEN 1 ELSE 0) + (IF GenderFails(row) THEN 1 ELSE 0)

C15_ReasonPerFailingField ==
    Returned =>
        LET csvData == parseCSV(csvText, getCSVTemplateHeaders)
        IN \A i \in 1..Len(csvData) :
              csvData[i].athlete_name # Null =>
                 /\ Len(Reasons(imp.report.errors, i)) = FailingFields(csvData[i])
                 /\ i \notin RejectedRows(imp.report)
                       <=> FailingFields(csvData[i]) = 0

(* C16: in one import no Result is written before every row of the batch   *)
(* has its verdict; a rejected row is never written; every written Result  *)
(* carries the meet_slug of the call; and a call that accepts no row       *)
(* writes nothing                                                          *)
C16_WritesFollowValidation ==
    [][results' # results =>
          LET csvData == parseCSV(csvText, getCSVTemplateHeaders)
              rejected == RejectedRows(imp.report)
              written == results'[Len(results')]
          IN /\ results' = Append(results, written)
             /\ imp.pc \in {"getDB", "writing", "returned"}
             /\ imp.validRows # <<>>
             /\ Cardinality(rejected) + Len(imp.validRows) = Len(csvData)
             /\ written.meet_slug = imp.meetSlug
             /\ \E i \in (1..Len(csvData)) \ rejected :
                   /\ written.athlete_name = csvData[i].athlete_name
                   /\ csvData[i].athlete_name # Null
                   /\ FieldFailure(csvData[i]) = "none"]_vars

C16_Witness ==
    /\ Returned
    /\ Len(imports) = 2
    /\ RejectedRows(imp.report) # {}
    /\ imp.report.success = 1
    /\ Len(results) = 2
    /\ results[1].meet_slug = "meet-a"
    /\ results[2].meet_slug = "meet-b"

(* C17: when the write of the accepted rows fails, or the store cannot be  *)
(* reached, bulkInsertResults still returns its report: success is 0 and   *)
(* the errors hold one 'Database error' after the rejections of the rows,  *)
(* which are all kept                                                      *)
C17_FailedWriteReported ==
    (Returned /\ ~Persisted(imp.report)) =>
        LET csvData == parseCSV(csvText, getCSVTemplateHeaders)
            checked == Validation(csvData, 1, imp.meetSlug)
        IN /\ imp.report.success = 0
           /\ imp.report.total = Len(csvData)
           /\ imp.report.errors = Append(checked.errors, DatabaseError)
           /\ imports[Len(imports)].report = imp.report

C17_Witness ==
    /\ Returned
    /\ ~Persisted(imp.report)
    /\ RejectedRows(imp.report) # {}
    /\ Len(imp.validRows) = 2
    /\ imp.written = 1

(* C18: import is not idempotent: after k imports of the same batch for    *)
(* the same meet slug, all of them written, every accepted row of the      *)
(* batch has k records in the store for each time the batch holds it (two  *)
(* per row after two imports), and no import removes a record of an        *)
(* earlier one                                                             *)
Count(store, rec) == Cardinality({i \in 1..Len(store) : store[i] = rec})

ImportsOf(meetSlug) ==
    Cardinality({k \in 1..Len(imports) : imports[k].meetSlug = meetSlug})

WrittenImportsOf(meetSlug) ==
    Cardinality({k \in 1..Len(imports) :
                    /\ imports[k].meetSlug = meetSlug
                    /\ Persisted(imports[k].report)})

AllWritten ==
    /\ imp.pc \in {"idle", "returned"}
    /\ \A k \in 1..Len(imports) : Persisted(imports[k].report)

C18_ImportNotIdempotent ==
    \A s \in MeetSlugs :
        LET rows == Validation(parseCSV(csvText, getCSVTemplateHeaders),
                               1, s).rows
        IN /\ \A j \in 1..Len(rows) :
                 /\ Count(results, rows[j])
                       >= WrittenImportsOf(s) * Count(rows, rows[j])
                 /\ AllWritten =>
                       Count(results, rows[j])
                          = ImportsOf(s) * Count(rows, rows[j])
           /\ AllWritten =>
                 Cardinality({i \in 1..Len(results) : results[i].meet_slug = s})
                    = ImportsOf(s) * Len(rows)

C18_Witness ==
    /\ AllWritten
    /\ Len(imports) = 2
    /\ imports[1].meetSlug = imports[2].meetSlug
    /\ imports[1].report.success = 2
    /\ imports[2].report.success = 2
    /\ Len(results) = 4
    /\ Count(results, results[1]) = 4

(* C19: meet creation is create-if-absent, first writer wins: after any    *)
(* sequence of meet creations for slug s the store holds exactly one Meet  *)
(* with slug s, the one the first creation supplied                        *)
MeetsWithSlug(s) == {i \in 1..Len(meets) : meets[i].slug = s}

C19_OneMeetPerSlug ==
    \A s \in MeetSlugs :
        MeetsWithSlug(s) # {} =>
            \A i \in MeetsWithSlug(s) :
                /\ i = CHOOSE j \in MeetsWithSlug(s) :
                            \A k \in MeetsWithSlug(s) : j <= k
                /\ Cardinality(MeetsWithSlug(s)) = 1

(* C20: the academic year is a function of the date alone, year + 1 when   *)
(* the 0-based month is >= 7 and the year otherwise (month 7 of 2024 gives *)
(* 2025, month 6 of 2024 gives 2024), and what getAthleteStatus,           *)
(* graduateAllSeniors, advanceAllAthletes and getSeasonSummary return and  *)
(* write at a date is what that one academic year gives                    *)
C20_OneAcademicYearPerDate ==
    LET ay == IF now.month >= 7 THEN now.year + 1 ELSE now.year
        r == lastCall.result
        b == lastCall.before
    IN /\ (r.op = "status" /\ r.status = "graduated") =>
              /\ r.graduatedYear = b[r.athlete].grad_year
              /\ r.graduatedYear + r.yearsAgo = ay
       /\ (r.op = "status" /\ r.status = "senior") =>
              /\ r.graduatingYear = b[r.athlete].grad_year
              /\ r.graduatingYear = ay
       /\ (r.op = "status" /\ r.status = "active") =>
              /\ r.graduatingYear = b[r.athlete].grad_year
              /\ r.graduatingYear - r.yearsUntilGraduation = ay
       /\ (r.op = "summary" /\ r.success) =>
              /\ r.seniors = ClassCount(b, ay)
              /\ r.juniors = ClassCount(b, ay + 1)
              /\ r.sophomores = ClassCount(b, ay + 2)
              /\ r.freshmen = ClassCount(b, ay + 3)
       /\ r.op = "graduate" =>
              /\ r.athletes = {a \in Athletes : b[a].grad_year = ay}
              /\ \A a \in r.athletes : athletes[a].grad_year = ay - 1
       /\ r.op = "advance" =>
              r.athletes = {a \in Athletes : b[a].grad_year >= ay}
       /\ lastCall.ay # NoCall.ay => lastCall.ay = ay
       /\ academicYear(now) = ay
       /\ academicYearOfStatus(now) = ay
       /\ academicYearOfSummary(now) = ay
       /\ academicYear([year |-> 2024, month |-> 7]) = 2025
       /\ academicYear([year |-> 2024, month |-> 6]) = 2024

C20_Witness ==
    /\ now = [year |-> 2024, month |-> 7]
    /\ prevCall.result.op = "graduate"
    /\ prevCall.result.count = 1
    /\ lastCall.result.op = "status"
    /\ lastCall.result.status = "graduated"
    /\ lastCall.result.graduatedYear = 2024
    /\ lastCall.result.yearsAgo = 1

(* C21: the classification of an existing athlete follows from grad_year   *)
(* and the academic year AY alone and its cases do not overlap: graduated  *)
(* with yearsAgo = AY - grad_year below AY, senior at AY, active above AY  *)
(* with grade UNKNOWN when grad_year - AY is outside 1..4; an athlete that *)
(* does not exist is not_found                                             *)
C21_ClassificationIsPartition ==
    [][\A s \in Athletes \cup {NoSuchAthlete} :
          getAthleteStatus(s) =>
              LET ay == IF now.month >= 7 THEN now.year + 1 ELSE now.year
                  r == result'
              IN IF s \notin DOMAIN athletes
                 THEN r.status = "not_found"
                 ELSE LET gy == athletes[s].grad_year
                      IN /\ r.status \in {"graduated", "senior", "active"}
                         /\ r.status = "graduated" <=> gy < ay
                         /\ r.status = "senior" <=> gy = ay
                         /\ r.status = "active" <=> gy > ay
                         /\ r.status = "graduated" => r.yearsAgo = ay - gy
                         /\ r.status = "active" =>
                                (r.grade = "UNKNOWN" <=> gy - ay \notin 1..4)]_vars

C21_Witness ==
    /\ result.op = "status"
    /\ result.status = "active"
    /\ result.yearsUntilGraduation = 5
    /\ result.grade = "UNKNOWN"
    /\ athletes[result.athlete].grad_year = academicYear(now) + 5

(* The count of getSeasonSummary a grade of getAthleteStatus names *)
ClassOfGrade ==
    [FR |-> "freshmen", SO |-> "sophomores", JR |-> "juniors", SR |-> "seniors"]

(* C22: the grade getAthleteStatus reports for an active athlete names the *)
(* class in which getSeasonSummary counts that athlete: the count of that  *)
(* class is the number of athletes of the athlete's graduation year, and   *)
(* the grades sit at the documented offsets from the academic year         *)
(* (freshman +3, sophomore +2, junior +1)                                  *)
C22_GradeNamesSummaryClass ==
    LET s == prevCall.result
        m == lastCall.result
    IN (/\ s.op = "status" /\ s.status = "active"
        /\ s.grade \in DOMAIN ClassOfGrade
        /\ m.op = "summary" /\ m.success
        /\ lastCall.before = prevCall.before
        /\ lastCall.ay = prevCall.ay)
       => /\ m[ClassOfGrade[s.grade]] =
                 ClassCount(lastCall.before, s.graduatingYear)
          /\ s.grade = "FR" => s.yearsUntilGraduation = 3
          /\ s.grade = "SO" => s.yearsUntilGraduation = 2
          /\ s.grade = "JR" => s.yearsUntilGraduation = 1

(* C23: a bulk transition issues exactly one write for each athlete it     *)
(* selected and has returned only when every one of those writes has       *)
(* settled, one of them failing or not                                     *)
C23_ReturnsAfterEveryWriteSettled ==
    /\ bulk.pc \in {"awaiting", "returned"} =>
          /\ {bulk.issued[i] : i \in 1..Len(bulk.issued)} = bulk.selected
          /\ Len(bulk.issued) = Cardinality(bulk.selected)
    /\ bulk.pc = "returned" => bulk.pending = {}

(* The durations the import is to accept: a decimal number of seconds,     *)
(* M:SS[.fff] and H:M:SS[.fff]                                             *)
IsDigits(s) == s # <<>> /\ \A i \in 1..Len(s) : s[i] \in Digits

IsDecimal(s) ==
    LET parts == Split(s, ".")
    IN /\ Len(parts) \in {1, 2}
       /\ \A i \in 1..Len(parts) : IsDigits(parts[i])

WellFormedDuration(s) ==
    LET parts == Split(s, ":")
    IN /\ Len(parts) \in {1, 2, 3}
       /\ IsDecimal(parts[Len(parts)])
       /\ \A i \in 1..(Len(parts) - 1) : IsDigits(parts[i])

(* Seconds in units of 1/Scale *)
DecimalValue(s) ==
    LET parts == Split(s, ".")
    IN DigitsValue(parts[1]) * Scale
         + (IF Len(parts) = 2 THEN FractionValue(parts[2]) ELSE 0)

DurationValue(s) ==
    LET parts == Split(s, ":")
    IN CASE Len(parts) = 1 -> DecimalValue(parts[1])
         [] Len(parts) = 2 -> DigitsValue(parts[1]) * 60 * Scale
                                + DecimalValue(parts[2])
         [] Len(parts) = 3 -> DigitsValue(parts[1]) * 3600 * Scale
                                + DigitsValue(parts[2]) * 60 * Scale
                                + DecimalValue(parts[3])

(* C24: a time is accepted exactly when it is a decimal number of seconds, *)
(* M:SS[.fff] (minutes * 60 + seconds) or H:M:SS[.fff] (hours * 3600 +     *)
(* minutes * 60 + seconds): 18:30.45 is 1110.45 and 1:02:03 is 3723; a     *)
(* time of any other number of parts, with a part that is not a number, or *)
(* empty has its row rejected with 'Invalid time value'                    *)
C24_OnlyWellFormedDurations ==
    /\ parseTimeToSeconds(<<"1", "8", ":", "3", "0", ".", "4", "5">>)
          = Number(1110 * Scale + 45 * (Scale \div 100))
    /\ parseTimeToSeconds(<<"1", ":", "0", "2", ":", "0", "3">>)
          = Number(3723 * Scale)
    /\ \A k \in 1..Len(imports) :
          LET csvData == parseCSV(csvText, getCSVTemplateHeaders)
              report == imports[k].report
          IN \A i \in 1..Len(csvData) :
                IF WellFormedDuration(csvData[i].time)
                THEN /\ Reasons(report.errors, i) # <<"Invalid time value">>
                     /\ parseTimeToSeconds(csvData[i].time)
                           = Number(DurationValue(csvData[i].time))
                ELSE Reasons(report.errors, i) = <<"Invalid time value">>

(* The records of crosscountry/results that carry a time *)
Timed == {j \in 1..Len(results) : results[j].time.kind # "null"}

(* C25: no Result with a negative or non-finite time is accepted: every    *)
(* stored time is a number >= 0, and a row whose time parses to a negative *)
(* value is rejected with 'Invalid time value'                             *)
C25_NoNegativeTime ==
    /\ \A j \in Timed :
          /\ results[j].time.kind = "number"
          /\ results[j].time.v >= 0
    /\ \A k \in 1..Len(imports) :
          LET csvData == parseCSV(csvText, getCSVTemplateHeaders)
              report == imports[k].report
          IN \A i \in 1..Len(csvData) :
                LET time == parseTimeToSeconds(csvData[i].time)
                IN (time.kind = "number" /\ time.v < 0) =>
                       Reasons(report.errors, i) = <<"Invalid time value">>

(* The rows of the file whose time parses to more than 36000 seconds *)
OverLimit(csvData) ==
    {i \in 1..Len(csvData) :
        LET time == parseTimeToSeconds(csvData[i].time)
        IN time.kind = "number" /\ time.v > 36000 * Scale}

(* C26: a row whose parsed time is above 36000 seconds is rejected with    *)
(* the out-of-range reason and is never stored, clamped or as it is; a     *)
(* time of exactly 36000 seconds is accepted; every stored time is         *)
(* <= 36000                                                                *)
C26_TimeOverLimitRejected ==
    LET csvData == parseCSV(csvText, getCSVTemplateHeaders)
    IN /\ \A j \in Timed : results[j].time.v <= 36000 * Scale
       /\ imp.pc # "idle" =>
             /\ Len(imp.validRows) + Cardinality(OverLimit(csvData))
                   <= Len(csvData)
             /\ \A r \in 1..Len(imp.validRows) :
                   imp.validRows[r].time.v <= 36000 * Scale
       /\ \A k \in 1..Len(imports) :
             \A i \in 1..Len(csvData) :
                LET time == parseTimeToSeconds(csvData[i].time)
                    reasons == Reasons(imports[k].report.errors, i)
                IN /\ i \in OverLimit(csvData) =>
                         reasons = <<"Time seems unusually long">>
                   /\ (/\ time = Number(36000 * Scale)
                       /\ csvData[i].athlete_name # Null
                       /\ FieldFailure([csvData[i] EXCEPT !.time = Null])
                             = "none")
                      => reasons = <<>>

C26_Witness ==
    /\ Len(imports) = 1
    /\ imports[1].report =
          [success |-> 1, total |-> 2,
           errors |-> <<<<2, "Time seems unusually long">>>>]
    /\ Len(results) = 1
    /\ results[1].time = Number(36000 * Scale)

(* Math.round(seconds * 100) / 100 in units of 1/Scale *)
RoundedToHundredths(v) ==
    LET hundredth == Scale \div 100
    IN ((v + hundredth \div 2) \div hundredth) * hundredth

(* C27: every time the import stores is rounded to hundredths of a second: *)
(* it is round(seconds * 100) / 100 of the parsed value of a row, an       *)
(* integer multiple of 0.01, and 18:30.456 is stored as 1110.46            *)
C27_StoredTimeInHundredths ==
    LET csvData == parseCSV(csvText, getCSVTemplateHeaders)
    IN \A j \in Timed :
          /\ results[j].time.v % (Scale \div 100) = 0
          /\ \E i \in 1..Len(csvData) :
                /\ parseTimeToSeconds(csvData[i].time).kind = "number"
                /\ results[j].time.v =
                      RoundedToHundredths(parseTimeToSeconds(csvData[i].time).v)
          /\ csvData[1].time = <<"1", "8", ":", "3", "0", ".", "4", "5", "6">>
                => results[j].time.v = 111046 * (Scale \div 100)

(* C28: a time t that is a multiple of 0.01 from 0 to 36000 seconds,       *)
(* written by formatTime as M:SS.ss and read back by parseTimeToSeconds,   *)
(* comes back within 0.01 of t                                             *)
C28_FormatParseRoundTrip ==
    (/\ result.op = "parseTimeToSeconds"
     /\ result.shown.kind = "number"
     /\ result.shown.v % (Scale \div 100) = 0
     /\ result.shown.v >= 0
     /\ result.shown.v <= 36000 * Scale)
    => LET parts == Split(result.text, ":")
       IN /\ Len(parts) = 2
          /\ IsDigits(parts[1])
          /\ Len(parts[2]) = 5
          /\ parts[2][3] = "."
          /\ result.seconds.kind = "number"
          /\ result.seconds.v - result.shown.v <= Scale \div 100
          /\ result.shown.v - result.seconds.v <= Scale \div 100

C28_Witness ==
    /\ result.op = "parseTimeToSeconds"
    /\ result.shown = Number(1110 * Scale + 5 * (Scale \div 100))
    /\ result.text = <<"1", "8", ":", "3", "0", ".", "0", "5">>
    /\ result.seconds = result.shown

(* The genders the import takes, and how each is stored *)
CanonicalGender ==
    [g \in {<<"M">>, <<"F">>, <<"m">>, <<"f">>, Null} |->
        CASE g \in {<<"M">>, <<"m">>} -> <<"M">>
          [] g \in {<<"F">>, <<"f">>} -> <<"F">>
          [] OTHER -> Null]

(* C29: every Result the import writes has gender M, F or none; m and f    *)
(* are accepted and stored as M and F, an absent gender is accepted and    *)
(* stored as none, and any other value rejects the row with 'Invalid       *)
(* gender value'                                                           *)
C29_GenderCanonical ==
    LET csvData == parseCSV(csvText, getCSVTemplateHeaders)
        Acceptable(i) ==
            /\ csvData[i].athlete_name # Null
            /\ FieldFailure([csvData[i] EXCEPT !.gender = Null]) = "none"
        accepted == {i \in 1..Len(csvData) :
                        Acceptable(i) /\ csvData[i].gender \in DOMAIN CanonicalGender}
    IN /\ \A j \in 1..Len(results) :
             results[j].gender \in {<<"M">>, <<"F">>, Null}
       /\ imp.pc # "idle" =>
             /\ Len(imp.validRows) = Cardinality(accepted)
             /\ \A r \in 1..Len(imp.validRows) :
                   \E i \in accepted :
                      imp.validRows[r].gender = CanonicalGender[csvData[i].gender]
       /\ \A k \in 1..Len(imports) :
             \A i \in 1..Len(csvData) :
                Acceptable(i) =>
                   Reasons(imports[k].report.errors, i) =
                      IF csvData[i].gender \in DOMAIN CanonicalGender
                      THEN <<>> ELSE <<"Invalid gender value">>

C29_Witness ==
    /\ parseCSV(csvText, getCSVTemplateHeaders)[1].gender = <<"f">>
    /\ Len(imports) = 1
    /\ imports[1].report = [success |-> 1, total |-> 1, errors |-> <<>>]
    /\ Len(results) = 1
    /\ results[1].gender = <<"F">>

(* C30: a distance that is written and is not a number, or a place that is *)
(* written and is not an integer (12abc, 3.7), rejects the row with        *)
(* 'Invalid distance value' or 'Invalid place value'; the distance stored  *)
(* for an accepted row is the number written and the place stored is the   *)
(* integer written                                                         *)
C30_DistanceAndPlaceAreNumbers ==
    LET csvData == parseCSV(csvText, getCSVTemplateHeaders)
        TimeAccepted(i) ==
            /\ csvData[i].athlete_name # Null
            /\ FieldFailure([csvData[i] EXCEPT !.distance = Null,
                                               !.place = Null,
                                               !.gender = Null]) = "none"
        BadDistance(i) ==
            csvData[i].distance # Null /\ ~IsDecimal(csvData[i].distance)
        BadPlace(i) ==
            csvData[i].place # Null /\ ~IsDigits(csvData[i].place)
    IN /\ \A k \in 1..Len(imports) :
             \A i \in 1..Len(csvData) :
                LET reasons == Reasons(imports[k].report.errors, i)
                IN /\ (TimeAccepted(i) /\ BadDistance(i)) =>
                          reasons = <<"Invalid distance value">>
                   /\ (TimeAccepted(i) /\ ~BadDistance(i) /\ BadPlace(i)) =>
                          reasons = <<"Invalid place value">>
       /\ \A j \in 1..Len(results) :
             \E i \in 1..Len(csvData) :
                /\ ~BadDistance(i)
                /\ ~BadPlace(i)
                /\ results[j].distance =
                      IF csvData[i].distance = Null THEN NullNumber
                      ELSE Number(DecimalValue(csvData[i].distance))
                /\ results[j].place =
                      IF csvData[i].place = Null THEN NullNumber
                      ELSE Number(DigitsValue(csvData[i].place) * Scale)

(* The athletes of the roster whose name stands on a stored result of a    *)
(* meet that getSeasonData returned                                        *)
HasResultIn(a, seasonMeets) ==
    \E i \in 1..Len(results), j \in 1..Len(seasonMeets) :
        /\ results[i].athlete_name = athletes[a].name
        /\ results[i].meet_slug = seasonMeets[j].slug

(* C31: getSeasonData returns the athletes who have a result in a meet of  *)
(* the year: when the call has returned the data of the stores as they     *)
(* are, an athlete with an imported result in one of the returned meets is *)
(* among the returned athletes                                             *)
C31_SeasonAthletesIncluded ==
    \A y \in DataYears, west \in BOOLEAN :
        result = SeasonData(y, west) =>
            \A a \in Athletes :
                HasResultIn(a, result.meets) =>
                    \E i \in 1..Len(result.athletes) : result.athletes[i] = a

(* C32: every rejection of the report names the failing row by its         *)
(* position among the data lines of the CSV text: the line at the reported *)
(* row number is a row of the file, and it fails for the reported reason   *)
C32_RowNumberIsPositionInFile ==
    Returned =>
        \A k \in 1..Len(imp.report.errors) :
            LET err == imp.report.errors[k]
            IN err # DatabaseError =>
                  /\ err[1] \in 1..Len(DataLines)
                  /\ LET csvData == parseCSV(<<HeaderLine, DataLines[err[1]]>>,
                                             getCSVTemplateHeaders)
                     IN /\ csvData # <<>>
                        /\ validateRow(csvData[1], err[1],
                                       imp.meetSlug).errors = <<err>>

(* Both operators have called advanceAllAthletes, the second while the     *)
(* call of the first was under way, and both calls have returned           *)
BothAdvanced ==
    /\ bulk.pc = "returned" /\ bulk.pending = {} /\ result.success
    /\ peer.pc = "returned" /\ peer.op = "advance" /\ peer.overlaps
    /\ peer.result.success

(* C33: two advanceAllAthletes calls that overlap can decrement twice: an  *)
(* athlete selected by both ends two years down from the grad_year the     *)
(* first call read exactly when the second call read the roster after the  *)
(* first call's write of that athlete, and one year down otherwise         *)
C33_SecondReadAfterFirstWriteDecrementsTwice ==
    BothAdvanced =>
        \A a \in bulk.selected \cap peer.selected :
            athletes[a].grad_year =
                lastCall.before[a].grad_year -
                    (IF peer.before[a].grad_year < lastCall.before[a].grad_year
                     THEN 2 ELSE 1)

(* The interleaving of the claim: the calls overlapped and an athlete      *)
(* selected by both is two years down                                      *)
C33_Witness ==
    /\ BothAdvanced
    /\ \E a \in bulk.selected \cap peer.selected :
          athletes[a].grad_year = lastCall.before[a].grad_year - 2

(* How many of the two advanceAllAthletes calls name athlete a among the   *)
(* athletes they advanced                                                  *)
ReportedAdvances(a) ==
    (IF a \in result.athletes THEN 1 ELSE 0)
        + (IF a \in peer.result.athletes THEN 1 ELSE 0)

(* The grad_years a serial run of advanceAllAthletes and                   *)
(* updateAthleteGradYear(a, newGradYear) leaves athlete a with: the update *)
(* last, or the update first and its value advanced when it is selected    *)
SerialOutcomes(newGradYear, ay) ==
    {newGradYear,
     IF newGradYear >= ay THEN newGradYear - 1 ELSE newGradYear}

(* C38: no update is lost when the calls overlap.  After two               *)
(* advanceAllAthletes calls that both read the roster before either wrote, *)
(* every athlete is as many years down as calls report it advanced; after  *)
(* an advanceAllAthletes call overlapped by updateAthleteGradYear, the     *)
(* athlete has a grad_year that one of the two serial orders gives         *)
C38_NoLostUpdate ==
    /\ (BothAdvanced /\ peer.before = lastCall.before) =>
          \A a \in Athletes :
              athletes[a].grad_year =
                  lastCall.before[a].grad_year - ReportedAdvances(a)
    /\ (/\ bulk.pc = "returned" /\ bulk.pending = {} /\ result.success
        /\ peer.pc = "returned" /\ peer.op = "update") =>
          \A a \in peer.selected \cap bulk.selected :
              athletes[a].grad_year \in
                  SerialOutcomes(peer.newGradYear, lastCall.ay)

(* Both operators have imported into the same meet, the second while the   *)
(* call of the first was under way, and both calls have returned without a *)
(* database error                                                          *)
BothImported ==
    /\ imp.pc = "returned" /\ imp.pending = <<>> /\ Persisted(imp.report)
    /\ peer.pc = "returned" /\ peer.pending = <<>> /\ Persisted(peer.report)
    /\ peer.overlaps
    /\ peer.meetSlug = imp.meetSlug

(* C34: two imports into the same meet that overlap and both report        *)
(* success, of n and m accepted rows, leave exactly n + m records of that  *)
(* meet in the store, every accepted row as many times as the two batches  *)
(* hold it, each with the meet's slug                                      *)
C34_ConcurrentImportsAddAllRows ==
    BothImported =>
        LET n == imp.report.success
            m == peer.report.success
            ofMeet == {i \in 1..Len(results) :
                          results[i].meet_slug = imp.meetSlug}
        IN /\ n = Len(imp.validRows)
           /\ m = Len(peer.validRows)
           /\ Cardinality(ofMeet) = n + m
           /\ \A i \in ofMeet :
                 Count(results, results[i])
                    = Count(imp.validRows, results[i])
                         + Count(peer.validRows, results[i])

(* The pushes of the two calls interleaved: a row of the second operator   *)
(* stands between two rows of the first, and a row both files hold is in   *)
(* the store three times                                                   *)
C34_Witness ==
    /\ BothImported
    /\ Len(results) = 4
    /\ results[1] = imp.validRows[1]
    /\ results[2] = peer.validRows[2]
    /\ results[4] = imp.validRows[2]
    /\ Count(results, imp.validRows[1]) = 3

(* C35: the success count a returned import reports is the number of       *)
(* records the call has added to the store; with a database error and      *)
(* success 0, none                                                         *)
C35_SuccessCountIsRowsWritten ==
    Returned => imp.report.success = imp.written

(* The athletes a returned bulk transition has modified: those whose       *)
(* update has reached the store                                            *)
ModifiedByCall ==
    {a \in bulk.selected : athletes[a].grad_year = bulk.payloads[a].grad_year}

(* C36: the result of a bulk transition tells the truth about the store:   *)
(* with success false the call has modified no athlete, with success true  *)
(* it has modified exactly the athletes it names, as many as it counts     *)
C36_BulkResultTellsTheTruth ==
    bulk.pc = "returned" =>
        /\ ~result.success => ModifiedByCall = {}
        /\ result.success =>
              /\ ModifiedByCall = result.athletes
              /\ result.count = Cardinality(ModifiedByCall)

(* getAthleteStatus classifies as graduated (grad_year < academic year)    *)
(* exactly the athletes whose stored status is 'graduated'                 *)
StatusAgrees(roster, ay) ==
    \A a \in DOMAIN roster :
        roster[a].grad_year < ay <=> roster[a].status = "graduated"

(* C37: derived and stored graduation state agree, and advanceAllAthletes  *)
(* keeps them so: after an advanceAllAthletes call on a roster where they  *)
(* agreed, within the academic year of the call, they agree                *)
C37_DerivedAndStoredStatusAgree ==
    (/\ lastCall.result.op = "advance"
     /\ lastCall.ay = academicYear(now)
     /\ StatusAgrees(lastCall.before, lastCall.ay)) =>
        StatusAgrees(Roster(athletes), academicYearOfStatus(now))

====
